---- MODULE Spec2Model ----
(***************************************************************************)
(* Model of the ENEM question compiler: the consolidated question table,   *)
(* the per-year and global filters of ProcessadorQuestoes, and the         *)
(* request handler AplicacaoENEM._gerar_documento, the validation of the   *)
(* form, the paragraph formatter and the document generator.               *)
(***************************************************************************)
EXTENDS Integers, Sequences, FiniteSets, TLC

VARIABLES
    df_consolidado,     \* ProcessadorQuestoes.df_consolidado: the table, in storage order
    detalhes,           \* the (ano, posicao) pairs that have a details.json
    quicksortEstavel,   \* whether the build's single-key quicksort keeps ties in input order
    pedido,             \* the arguments the form hands to _gerar_documento
    pc,                 \* position of the request handler
    filtros,            \* the filtros dict built by _gerar_documento
    i,                  \* carregar_questoes: index of the year being processed
    df_ano_filtrado,    \* carregar_questoes: result of _aplicar_filtros for the last year
    dataframes_anos,    \* carregar_questoes: the per-year results kept so far
    df_questoes,        \* _gerar_documento: the table carregar_questoes returned
    j,                  \* _processar_questoes: enumerate index (1-based)
    questoes,           \* _processar_questoes: the Questao objects built so far
    anterior,           \* what the previous run of the same request returned
    form,               \* a FiltrosQuestoes object
    validacao,          \* what FiltrosQuestoes.validar returned for it
    texto,              \* adicionar_paragrafo_formatado: its argument, a sequence of characters
    estilo,             \* the style of the paragraph created for it
    conteudo,           \* the text handed to _aplicar_formatacao
    last_index,         \* _aplicar_formatacao: last_index (0-based)
    ordem,              \* _processar_match: the order in which the set formatacoes iterates
    runs,               \* the runs added to the paragraph so far
    pm,                 \* position of the paragraph formatter
    lista_questoes,     \* criar_documento: its argument questoes, a list of Questao
    doc,                \* GeradorDocumento.doc: what was added to the document, in order
    questao_idx,        \* criar_documento: index of the question being added
    imagens_cache,      \* GeradorDocumento.imagens_cache: the urls downloaded so far
    pg                  \* position of the document generator

\* The variables of the request handler, of the validation and of the
\* paragraph formatter.
varsPedido == <<df_consolidado, detalhes, quicksortEstavel, pedido, pc, filtros, i,
                df_ano_filtrado, dataframes_anos, df_questoes, j, questoes, anterior>>

varsValidar == <<form, validacao>>

varsMarkup == <<texto, estilo, conteudo, last_index, ordem, runs, pm>>

varsDocumento == <<lista_questoes, doc, questao_idx, imagens_cache, pg>>

vars == <<varsPedido, varsValidar, varsMarkup, varsDocumento>>

-----------------------------------------------------------------------------
(* Bounds of the model. *)

\* Largest number of rows of a generated table.
MaxLinhas == 3

\* Number of MT rows per year in the two-year quantity scenario.
LinhasPorAno == 6

\* Largest length of a generated paragraph text.
MaxTexto == 4

\* Largest number of questions of a generated document.
MaxQuestoes == 2

\* Largest number of atoms (characters and image references) of a context.
MaxContexto == 3

-----------------------------------------------------------------------------
(* Values. *)

\* The float NaN that pd.to_numeric(errors='coerce') yields for a cell that is
\* missing or not a number.
NaN == -999999

IsNaN(x) == x = NaN

\* pd.to_numeric(cell, errors='coerce') on the text of one CSV cell.
ToNumeric(cel) ==
    CASE cel = "-1"   -> -1
      [] cel = "0"    -> 0
      [] cel = "1"    -> 1
      [] cel = "2"    -> 2
      [] cel = "3"    -> 3
      [] cel = "4"    -> 4
      [] cel = "5"    -> 5
      [] cel = "6"    -> 6
      [] cel = "7"    -> 7
      [] cel = "8"    -> 8
      [] cel = "9"    -> 9
      [] cel = "10"   -> 10
      [] cel = "11"   -> 11
      [] cel = "12"   -> 12
      [] cel = "13"   -> 13
      [] cel = "2001" -> 2001
      [] OTHER        -> NaN

\* str.isdigit() on one whitespace-separated token.
IsDigit(tok) == tok \in {"1", "2", "3"}

\* int(tok) for a token of digits.
IntDeToken(tok) ==
    CASE tok = "1" -> 1
      [] tok = "2" -> 2
      [] tok = "3" -> 3

\* int(ano) for a year string of the form.
IntDeAno(ano) ==
    CASE ano = "2008" -> 2008
      [] ano = "2020" -> 2020
      [] ano = "2021" -> 2021

\* str(ano) for a year number.
StrDeAno(ano) ==
    CASE ano = 2008 -> "2008"
      [] ano = 2020 -> "2020"
      [] ano = 2021 -> "2021"

\* Faulty variant: the index has a year with one subject only.
provas_com_ano_parcial ==
    ("2008" :> [MT |-> 31]) @@
    ("2020" :> [CH |-> 567,  CN |-> 597,  MT |-> 587,  LC |-> 577])  @@
    ("2021" :> [CH |-> 879,  CN |-> 909,  MT |-> 899,  LC |-> 889])

\* ListaProva.provas_regulares: year string -> subject code -> exam code.
provas_regulares ==
    ("2009" :> [CH |-> 53,   CN |-> 49,   MT |-> 63,   LC |-> 59])   @@
    ("2010" :> [CH |-> 85,   CN |-> 89,   MT |-> 99,   LC |-> 95])   @@
    ("2011" :> [CH |-> 117,  CN |-> 121,  MT |-> 131,  LC |-> 127])  @@
    ("2012" :> [CH |-> 137,  CN |-> 141,  MT |-> 151,  LC |-> 147])  @@
    ("2013" :> [CH |-> 167,  CN |-> 171,  MT |-> 181,  LC |-> 177])  @@
    ("2014" :> [CH |-> 195,  CN |-> 199,  MT |-> 209,  LC |-> 205])  @@
    ("2015" :> [CH |-> 231,  CN |-> 235,  MT |-> 245,  LC |-> 241])  @@
    ("2016" :> [CH |-> 295,  CN |-> 291,  MT |-> 303,  LC |-> 299])  @@
    ("2017" :> [CH |-> 395,  CN |-> 391,  MT |-> 403,  LC |-> 399])  @@
    ("2018" :> [CH |-> 451,  CN |-> 447,  MT |-> 459,  LC |-> 455])  @@
    ("2019" :> [CH |-> 507,  CN |-> 503,  MT |-> 515,  LC |-> 511])  @@
    ("2020" :> [CH |-> 567,  CN |-> 597,  MT |-> 587,  LC |-> 577])  @@
    ("2021" :> [CH |-> 879,  CN |-> 909,  MT |-> 899,  LC |-> 889])  @@
    ("2022" :> [CH |-> 1055, CN |-> 1085, MT |-> 1075, LC |-> 1065]) @@
    ("2023" :> [CH |-> 1191, CN |-> 1221, MT |-> 1211, LC |-> 1201]) @@
    ("2024" :> [CH |-> 1383, CN |-> 1419, MT |-> 1407, LC |-> 1395])

-----------------------------------------------------------------------------
(* DataFrame primitives.  A DataFrame is a sequence of rows; a row is a     *)
(* record of its columns plus idx, its index label.                        *)

Range(s) == {s[n] : n \in 1..Len(s)}

\* seq[indexer]: the rows of seq taken in the order of a sequence of places.
Take(seq, indexer) == [n \in 1..Len(indexer) |-> seq[indexer[n]]]

Reverse(seq) == [n \in 1..Len(seq) |-> seq[Len(seq) + 1 - n]]

RECURSIVE Concat(_)
\* The concatenation of a sequence of sequences.
Concat(ss) == IF ss = <<>> THEN <<>> ELSE Head(ss) \o Concat(Tail(ss))

\* df[col] = val (a new or replaced column holding one value).
ComColuna(r, col, val) ==
    [f \in (DOMAIN r) \cup {col} |-> IF f = col THEN val ELSE r[f]]

RECURSIVE InsereOrdenado(_, _, _)
\* One step of a stable insertion sort of places by keys: place n goes after
\* every place already there whose key is not greater.
InsereOrdenado(ord, keys, n) ==
    IF ord = <<>> THEN <<n>>
    ELSE IF keys[ord[Len(ord)]] <= keys[n] THEN Append(ord, n)
    ELSE Append(InsereOrdenado(SubSeq(ord, 1, Len(ord) - 1), keys, n), ord[Len(ord)])

RECURSIVE ArgsortAte(_, _)
ArgsortAte(keys, n) ==
    IF n = 0 THEN <<>> ELSE InsereOrdenado(ArgsortAte(keys, n - 1), keys, n)

\* A stable argsort (mergesort, lexsort): ties stay in input order.
ArgsortEstavel(keys) == ArgsortAte(keys, Len(keys))

\* The reverse of ArgsortEstavel on the reversed input: sorted, ties reversed.
ArgsortTiesInvertidos(keys) ==
    LET n == Len(keys)
        rev == ArgsortEstavel(Reverse(keys))
    IN  [k \in 1..n |-> n + 1 - rev[k]]

\* Faulty variant: the order of equal keys differs from one call to the next.
ArgsortQuicksortPorChamada(keys) ==
    IF anterior = <<>> THEN ArgsortEstavel(keys) ELSE ArgsortTiesInvertidos(keys)

\* numpy argsort(kind='quicksort'): sorted by key; the order of equal keys is
\* whatever the build's quicksort gives, the same on every call.
ArgsortQuicksort(keys) ==
    IF quicksortEstavel THEN ArgsortEstavel(keys) ELSE ArgsortTiesInvertidos(keys)

\* pandas nargsort, na_position='last': the places of the non-NaN keys sorted
\* by quicksort, then the places of the NaN keys in input order.
Nargsort(keys) ==
    LET todos == [n \in 1..Len(keys) |-> n]
        nao_nan == SelectSeq(todos, LAMBDA n : ~IsNaN(keys[n]))
        nan == SelectSeq(todos, LAMBDA n : IsNaN(keys[n]))
        ord == ArgsortQuicksort([n \in 1..Len(nao_nan) |-> keys[nao_nan[n]]])
    IN  Take(nao_nan, ord) \o nan

\* df.sort_values(col) for a numeric column.
SortValues(df, col) == Take(df, Nargsort([n \in 1..Len(df) |-> df[n][col]]))

\* pandas lexsort_indexer over one key, NaN coded last: stable.
LexsortNaUltimo(keys) ==
    LET todos == [n \in 1..Len(keys) |-> n]
        nao_nan == SelectSeq(todos, LAMBDA n : ~IsNaN(keys[n]))
        nan == SelectSeq(todos, LAMBDA n : IsNaN(keys[n]))
        ord == ArgsortEstavel([n \in 1..Len(nao_nan) |-> keys[nao_nan[n]]])
    IN  Take(nao_nan, ord) \o nan

\* Faulty variant: the combined result is not sorted before the cap.
SemOrdenar(df) == df

\* Faulty variant: the combined result is sorted by difficulty alone.
SortValuesSoDificuldade(df) ==
    Take(df, LexsortNaUltimo([n \in 1..Len(df) |-> df[n].NU_PARAM_B]))

\* df.sort_values(["ANO", "NU_PARAM_B"]): a stable lexicographic sort, the year
\* strings compared as text (equal to their numeric order for 4-digit years).
SortValuesAnoDificuldade(df) ==
    LET porDif == Take(df, LexsortNaUltimo([n \in 1..Len(df) |-> df[n].NU_PARAM_B]))
    IN  Take(porDif, ArgsortEstavel([n \in 1..Len(porDif) |-> IntDeAno(porDif[n].ANO)]))

RECURSIVE DropDuplicatesPosicao(_)
\* df.drop_duplicates(subset=["CO_POSICAO"]): keep='first'.
DropDuplicatesPosicao(df) ==
    IF df = <<>> THEN <<>>
    ELSE LET resto == DropDuplicatesPosicao(SubSeq(df, 1, Len(df) - 1))
             ult == df[Len(df)]
         IN  IF \E n \in 1..Len(resto) : resto[n].CO_POSICAO = ult.CO_POSICAO
             THEN resto ELSE Append(resto, ult)

\* pd.concat(dfs, ignore_index=True) and reset_index(drop=True): labels 0..n-1.
ResetIndex(df) == [n \in 1..Len(df) |-> ComColuna(df[n], "idx", n - 1)]

\* df.head(n)
HeadDf(df, n) == SubSeq(df, 1, IF n < Len(df) THEN n ELSE Len(df))

-----------------------------------------------------------------------------
(* ProcessadorQuestoes. *)

\* One line of ITENS_PROVA_CONSOLIDADO.csv as text cells.
LinhaCSV(ano, area, prova, posicao, habilidade, param_b, gabarito) ==
    [ANO_PROVA |-> ano, SG_AREA |-> area, CO_PROVA |-> prova, CO_POSICAO |-> posicao,
     CO_HABILIDADE |-> habilidade, NU_PARAM_B |-> param_b, TX_GABARITO |-> gabarito]

\* _carregar_csv_consolidado: read_csv gives the rows the labels 0..n-1 (CO_ITEM
\* is the item's own column, unique per line); CO_HABILIDADE and NU_PARAM_B are
\* coerced to numbers.
CarregarCsvConsolidado(csv) ==
    [n \in 1..Len(csv) |->
        [idx |-> n - 1, CO_ITEM |-> n,
         ANO_PROVA |-> csv[n].ANO_PROVA, SG_AREA |-> csv[n].SG_AREA,
         CO_PROVA |-> csv[n].CO_PROVA, CO_POSICAO |-> csv[n].CO_POSICAO,
         CO_HABILIDADE |-> ToNumeric(csv[n].CO_HABILIDADE),
         NU_PARAM_B |-> ToNumeric(csv[n].NU_PARAM_B),
         TX_GABARITO |-> csv[n].TX_GABARITO]]

\* _obter_provas_escolhidas: the dict subject -> exam code of the subjects the
\* index has for the year; the empty dict for a year the index lacks.
ObterProvasEscolhidas(ano, materias) ==
    IF ano \notin DOMAIN provas_regulares THEN <<>>
    ELSE LET achadas == {m \in Range(materias) : m \in DOMAIN provas_regulares[ano]}
         IN  [m \in achadas |-> provas_regulares[ano][m]]

\* dict.values() as a set.
Values(d) == {d[k] : k \in DOMAIN d}

\* Faulty variant: a row without a numeric skill code passes the filter.
FiltrarPorHabilidadeComNaN(df, habilidades) ==
    IF df = <<>> THEN df
    ELSE SelectSeq(df, LAMBDA r :
            \/ IsNaN(r.CO_HABILIDADE)
            \/ r.CO_HABILIDADE \in Range(habilidades))

\* _filtrar_por_habilidade
FiltrarPorHabilidade(df, habilidades) ==
    IF df = <<>> THEN df
    ELSE SelectSeq(df, LAMBDA r :
            /\ ~IsNaN(r.CO_HABILIDADE)
            /\ r.CO_HABILIDADE \in Range(habilidades))

\* posicoes_str.split() filtered by isdigit() and converted by int().
ParsePosicoes(posicoes_str) ==
    LET digitos == SelectSeq(posicoes_str, IsDigit)
    IN  [n \in 1..Len(digitos) |-> IntDeToken(digitos[n])]

\* Faulty variant: the rows sorted by the position itself, ascending.
CodigoCategoriaCrescente(posicoes, valor) == valor

\* The code of a value in pd.Categorical(categories=posicoes): its place in the
\* categories.
CodigoCategoria(posicoes, valor) ==
    CHOOSE n \in 1..Len(posicoes) : posicoes[n] = valor

\* pd.Categorical(..., categories=posicoes) raises ValueError ("Categorical
\* categories must be unique") when a category repeats.
CategoriasUnicas(posicoes) ==
    \A m, n \in 1..Len(posicoes) : posicoes[m] = posicoes[n] => m = n

\* _filtrar_por_posicao: [erro, df]; erro when the call raises.
FiltrarPorPosicao(df, posicoes_str) ==
    LET posicoes == ParsePosicoes(posicoes_str)
        df_filtrado == DropDuplicatesPosicao(
            SelectSeq(df, LAMBDA r : r.CO_POSICAO \in Range(posicoes)))
    IN  IF posicoes = <<>> THEN [erro |-> FALSE, df |-> df]
        ELSE IF ~CategoriasUnicas(posicoes) THEN [erro |-> TRUE, df |-> <<>>]
        ELSE [erro |-> FALSE,
              df |-> Take(df_filtrado,
                          ArgsortQuicksort([n \in 1..Len(df_filtrado) |->
                              CodigoCategoria(posicoes, df_filtrado[n].CO_POSICAO)]))]

\* A comparison of a column value with a number: False for NaN.
MaiorIgual(x, y) == ~IsNaN(x) /\ x >= y
MenorIgual(x, y) == ~IsNaN(x) /\ x <= y

\* Faulty variant: the upper bound is not applied when both bounds are in force.
FiltrarPorDificuldadeSemMaximo(df, min_dif, max_dif) ==
    IF df = <<>> THEN df
    ELSE IF min_dif = 0 /\ max_dif = 2000 THEN SortValues(df, "NU_PARAM_B")
    ELSE LET df_filtrado ==
                 IF min_dif = 0
                 THEN SelectSeq(df, LAMBDA r : MenorIgual(r.NU_PARAM_B, max_dif))
                 ELSE SelectSeq(df, LAMBDA r : MaiorIgual(r.NU_PARAM_B, min_dif))
         IN  SortValues(df_filtrado, "NU_PARAM_B")

\* _filtrar_por_dificuldade
FiltrarPorDificuldade(df, min_dif, max_dif) ==
    IF df = <<>> THEN df
    ELSE IF min_dif = 0 /\ max_dif = 2000 THEN SortValues(df, "NU_PARAM_B")
    ELSE LET df_filtrado ==
                 IF min_dif = 0
                 THEN SelectSeq(df, LAMBDA r : MenorIgual(r.NU_PARAM_B, max_dif))
                 ELSE IF max_dif = 2000
                 THEN SelectSeq(df, LAMBDA r : MaiorIgual(r.NU_PARAM_B, min_dif))
                 ELSE SelectSeq(df, LAMBDA r : /\ MaiorIgual(r.NU_PARAM_B, min_dif)
                                               /\ MenorIgual(r.NU_PARAM_B, max_dif))
         IN  SortValues(df_filtrado, "NU_PARAM_B")

\* The base filter of _aplicar_filtros: subject requested and exam code among
\* the resolved ones.
FiltroBase(df, materias, provas_escolhidas) ==
    SelectSeq(df, LAMBDA r : /\ r.SG_AREA \in Range(materias)
                             /\ r.CO_PROVA \in Values(provas_escolhidas))

\* _aplicar_filtros, lines 369-391: the filters of a year whose exams resolved.
FiltrosDoAno(df, materias, f, provas_escolhidas) ==
    LET base == FiltroBase(df, materias, provas_escolhidas)
        porHabilidade ==
            IF f.filtrar_habilidade /\ f.habilidades # <<>>
            THEN FiltrarPorHabilidade(base, f.habilidades)
            ELSE base
    IN  IF f.posicoes # <<>> THEN FiltrarPorPosicao(porHabilidade, f.posicoes)
        ELSE IF f.filtrar_dificuldade
        THEN [erro |-> FALSE,
              df |-> FiltrarPorDificuldade(porHabilidade, f.min_dif, f.max_dif)]
        ELSE [erro |-> FALSE, df |-> porHabilidade]

\* Faulty variant: the index is read without asking whether it has the year (KeyError).
AplicarFiltrosSemGuarda(df, ano, materias, f) ==
    IF ano \notin DOMAIN provas_regulares THEN [erro |-> TRUE, df |-> <<>>]
    ELSE FiltrosDoAno(df, materias, f, ObterProvasEscolhidas(ano, materias))

\* _aplicar_filtros: [erro, df] for the rows of one year.
AplicarFiltros(df, ano, materias, f) ==
    LET provas_escolhidas == ObterProvasEscolhidas(ano, materias)
    IN  IF DOMAIN provas_escolhidas = {} THEN [erro |-> FALSE, df |-> <<>>]
        ELSE FiltrosDoAno(df, materias, f, provas_escolhidas)

\* Faulty variant: the rows are sorted before the cut whatever the filters.
AplicarFiltrosGlobaisSempreOrdena(df, f) ==
    IF df = <<>> THEN df
    ELSE IF f.filtrar_quantidade /\ f.quantidade # 0 /\ Len(df) > f.quantidade
    THEN HeadDf(SortValuesAnoDificuldade(df), f.quantidade)
    ELSE df

\* _aplicar_filtros_globais
AplicarFiltrosGlobais(df, f) ==
    IF df = <<>> THEN df
    ELSE IF f.filtrar_quantidade /\ f.quantidade # 0 /\ Len(df) > f.quantidade
    THEN HeadDf(IF f.posicoes = <<>> THEN SortValuesAnoDificuldade(df) ELSE df,
                f.quantidade)
    ELSE df

\* carregar_questoes, lines 320-325: the rows of the requested years.
DfAnos(df, anos) ==
    SelectSeq(df, LAMBDA r : r.ANO_PROVA \in {IntDeAno(anos[n]) : n \in 1..Len(anos)})

\* Faulty variant: the number is taken from the index without reset_index.
NumerarSemReset(df) ==
    [n \in 1..Len(df) |-> ComColuna(df[n], "NUMERO_QUESTAO", df[n].idx + 1)]

\* carregar_questoes, lines 353-355: reset_index and NUMERO_QUESTAO = index + 1.
Numerar(df) ==
    LET r == ResetIndex(df)
    IN  [n \in 1..Len(r) |-> ComColuna(r[n], "NUMERO_QUESTAO", r[n].idx + 1)]

\* Faulty variant: the combined rows are always sorted by year and difficulty.
CombinarAnosOrdenado(dfs, f) ==
    IF dfs = <<>> THEN <<>>
    ELSE LET df_final == AplicarFiltrosGlobais(
                             SortValuesAnoDificuldade(ResetIndex(Concat(dfs))), f)
         IN  IF df_final # <<>> THEN Numerar(df_final) ELSE df_final

\* carregar_questoes, lines 343-357, from the per-year results.
CombinarAnos(dfs, f) ==
    IF dfs = <<>> THEN <<>>
    ELSE LET df_final == AplicarFiltrosGlobais(ResetIndex(Concat(dfs)), f)
         IN  IF df_final # <<>> THEN Numerar(df_final) ELSE df_final

\* carregar_detalhes_questao: whether the lookup gives a detail record.
TemDetalhes(ano, posicao) == <<ano, posicao>> \in detalhes

\* criar_objeto_questao
CriarObjetoQuestao(row, numero, ano) ==
    [numero |-> numero, ano |-> ano, posicao |-> row.CO_POSICAO,
     nota |-> row.NU_PARAM_B, habilidade |-> row.CO_HABILIDADE,
     gabarito |-> row.TX_GABARITO]

-----------------------------------------------------------------------------
(* The tables, detail stores and requests the model starts from. *)

\* The sequences of 0..n elements of a set.
SeqAte(S, n) == UNION {[1..k -> S] : k \in 0..n}

\* What the form returns when nothing but a year and a subject is chosen
\* (entradas.py: DIFICULDADE_DEFAULT_MIN, DIFICULDADE_DEFAULT_MAX, no filter on).
PedidoPadrao ==
    [anos |-> <<"2020">>, materias |-> <<"MT">>, posicoes |-> <<>>,
     min_dif |-> 1, max_dif |-> 2000,
     filtrar_quantidade |-> FALSE, quantidade |-> 0,
     filtrar_habilidade |-> FALSE, habilidades |-> <<>>]

\* Every (ano, posicao) pair of the model has a details.json.
TodosDetalhes == {2008, 2020, 2021} \X (1..3)

Cenario(csv, det, ped) == [csv |-> csv, detalhes |-> det, pedido |-> ped]

\* Position lists: without repeats, with repeats, with a token that is no number.
ListasPosicao ==
    {<<"3", "1", "2">>, <<"2", "1">>, <<"1", "3">>, <<"2">>}
    \cup {<<"1", "1">>, <<"2", "1", "2">>, <<"x">>, <<"2", "x", "1">>}

\* Rows of one subject at positions 1..3, some sharing a position; requests
\* of two years with a position list.
CenariosPosicao ==
    LET linhas == {LinhaCSV(2020, "MT", 587, p, "1", "3", "A") : p \in 1..3}
                  \cup {LinhaCSV(2021, "MT", 899, 1, "1", "3", "B")}
    IN  {Cenario(csv, TodosDetalhes,
                 [PedidoPadrao EXCEPT !.anos = <<"2021", "2020">>, !.posicoes = p]) :
            csv \in SeqAte(linhas, MaxLinhas),
            p \in ListasPosicao}

\* Rows without a difficulty, below, inside and above the form's range;
\* requests with an interval, either bound being in force or not.
CenariosDificuldade ==
    LET linhas == {LinhaCSV(2020, "MT", 587, 1, "1", d, "A") :
                      d \in {"", "-1", "3", "2001"}}
    IN  {Cenario(csv, TodosDetalhes,
                 [PedidoPadrao EXCEPT !.min_dif = mn, !.max_dif = mx]) :
            csv \in SeqAte(linhas, MaxLinhas),
            mn \in {0, 1, 3}, mx \in {3, 2000}}

\* Rows of two years; requests with a quantity cap, the years in either order.
CenariosQuantidade ==
    LET linhas == {LinhaCSV(2020, "MT", 587, 1, "1", d, "A") : d \in {"", "3"}}
                  \cup {LinhaCSV(2021, "MT", 899, 2, "1", d, "B") : d \in {"1", "3"}}
    IN  {Cenario(csv, TodosDetalhes,
                 [PedidoPadrao EXCEPT !.anos = a, !.min_dif = 0,
                                      !.filtrar_quantidade = fq[1],
                                      !.quantidade = fq[2]]) :
            csv \in SeqAte(linhas, MaxLinhas),
            a \in {<<"2020", "2021">>, <<"2021", "2020">>},
            fq \in ({TRUE} \X {0, 1, 2}) \cup {<<FALSE, 1>>}}

\* Rows with a numeric, a missing and a non-numeric skill code; requests with a
\* skill filter.
CenariosHabilidade ==
    LET linhas == {LinhaCSV(2020, "MT", 587, 1, h, "3", "A") : h \in {"", "x", "1", "2"}}
    IN  {Cenario(csv, TodosDetalhes,
                 [PedidoPadrao EXCEPT !.filtrar_habilidade = fh[1],
                                      !.habilidades = fh[2],
                                      !.min_dif = fh[3]]) :
            csv \in SeqAte(linhas, MaxLinhas),
            fh \in ({TRUE} \X {<<>>, <<1>>, <<2, 1>>, <<3>>} \X {0})
                   \cup {<<FALSE, <<1>>, 0>>, <<TRUE, <<1>>, 1>>}}

\* Rows of a year the index lacks, of a subject the index lacks and of an exam
\* that is not the reference one; requests naming such years and subjects.
CenariosIndice ==
    LET linhas == {LinhaCSV(2020, "MT", 587, 1, "1", "3", "A"),
                   LinhaCSV(2020, "MT", 588, 2, "1", "1", "B"),
                   LinhaCSV(2020, "XX", 600, 1, "1", "1", "D"),
                   LinhaCSV(2008, "MT", 31, 1, "1", "1", "E")}
    IN  {Cenario(csv, TodosDetalhes,
                 [PedidoPadrao EXCEPT !.anos = am[1], !.materias = am[2],
                                      !.min_dif = 0]) :
            csv \in SeqAte(linhas, MaxLinhas),
            am \in ({<<"2008">>, <<"2008", "2020">>, <<"2020", "2008">>}
                       \X {<<"MT">>, <<"XX">>, <<"MT", "XX">>})
                   \cup {<< <<>>, <<"MT">> >>, << <<"2020">>, <<>> >>}}

\* Rows at positions 1..3 with any of their detail files missing.
CenariosDetalhes ==
    LET linhas == {LinhaCSV(2020, "MT", 587, p, "1", "3", "A") : p \in 1..3}
    IN  {Cenario(csv, det, [PedidoPadrao EXCEPT !.posicoes = p]) :
            csv \in SeqAte(linhas, MaxLinhas),
            det \in SUBSET ({2020} \X (1..3)),
            p \in {<<>>, <<"3", "1", "2">>}}

\* The difficulties base+1 .. base+LinhasPorAno, stored ascending or descending.
Escada(base, crescente) ==
    [n \in 1..LinhasPorAno |->
        IF crescente THEN base + n ELSE base + LinhasPorAno + 1 - n]

\* The text of a number, as the CSV holds it.
Texto(n) ==
    CASE n = 1 -> "1" [] n = 2 -> "2" [] n = 3 -> "3" [] n = 4 -> "4"
      [] n = 5 -> "5" [] n = 6 -> "6" [] n = 7 -> "7" [] n = 8 -> "8"
      [] n = 9 -> "9" [] n = 10 -> "10" [] n = 11 -> "11" [] n = 12 -> "12"
      [] n = 13 -> "13"

\* The MT rows of one year, their difficulties a given sequence, and one LC row.
BlocoAno(ano, prova_mt, prova_lc, difs) ==
    [n \in 1..Len(difs) |->
        LinhaCSV(ano, "MT", prova_mt, (n % 3) + 1, "1", Texto(difs[n]), "A")]
    \o <<LinhaCSV(ano, "LC", prova_lc, 1, "1", "1", "B")>>

\* Years 2020 and 2021, each with MT and LC rows; MT requested with a cap of 10.
CenariosDoisAnos ==
    {Cenario(BlocoAno(2020, 587, 577, Escada(b0, c0))
                 \o BlocoAno(2021, 899, 889, Escada(b1, c1)),
             TodosDetalhes,
             [PedidoPadrao EXCEPT !.anos = a, !.min_dif = 0,
                                  !.filtrar_quantidade = TRUE, !.quantidade = 10]) :
        b0 \in {0, 3, 6}, c0 \in BOOLEAN, b1 \in {0, 3, 6}, c1 \in BOOLEAN,
        a \in {<<"2020", "2021">>, <<"2021", "2020">>}}

\* Two years with MT rows at positions 1..3, the difficulties of a year not
\* ascending with the position; requests with a position list and a cap.
CenariosPosicaoQuantidade ==
    LET csv == <<LinhaCSV(2020, "MT", 587, 1, "1", "9", "A"),
                 LinhaCSV(2020, "MT", 587, 2, "1", "5", "B"),
                 LinhaCSV(2020, "MT", 587, 3, "1", "7", "C"),
                 LinhaCSV(2021, "MT", 899, 1, "1", "4", "D"),
                 LinhaCSV(2021, "MT", 899, 2, "1", "2", "E")>>
    IN  {Cenario(c, TodosDetalhes,
                 [PedidoPadrao EXCEPT !.anos = a, !.posicoes = p,
                                      !.filtrar_quantidade = TRUE,
                                      !.quantidade = q]) :
            c \in {csv, Reverse(csv)},
            a \in {<<"2020", "2021">>, <<"2021", "2020">>},
            p \in {<<"3", "1", "2">>, <<"2", "1">>, <<"x">>},
            q \in {1, 2, 3, 5}}

Cenarios ==
    CenariosPosicaoQuantidade \cup CenariosPosicao \cup CenariosDificuldade \cup CenariosQuantidade
    \cup CenariosHabilidade \cup CenariosIndice \cup CenariosDetalhes
    \cup CenariosDoisAnos

-----------------------------------------------------------------------------
(* The request handler. *)

\* No FiltrosQuestoes object is under validation.
ValidarParado == form = <<>> /\ validacao = <<>>

\* No document is being generated.
DocumentoParado ==
    /\ lista_questoes = <<>>
    /\ doc = <<>>
    /\ questao_idx = 0
    /\ imagens_cache = {}
    /\ pg = "parado"

\* No paragraph is being formatted.
MarkupParado ==
    /\ texto = <<>>
    /\ estilo = ""
    /\ conteudo = <<>>
    /\ last_index = 0
    /\ ordem = <<>>
    /\ runs = <<>>
    /\ pm = "parado"

Init ==
    /\ \E c \in Cenarios :
        /\ df_consolidado = CarregarCsvConsolidado(c.csv)
        /\ detalhes = c.detalhes
        /\ pedido = c.pedido
    /\ quicksortEstavel \in BOOLEAN
    /\ pc = "ocioso"
    /\ filtros = <<>>
    /\ i = 0
    /\ df_ano_filtrado = <<>>
    /\ dataframes_anos = <<>>
    /\ df_questoes = <<>>
    /\ j = 0
    /\ questoes = <<>>
    /\ anterior = <<>>
    /\ ValidarParado
    /\ MarkupParado
    /\ DocumentoParado

\* _gerar_documento, lines 618-637, and carregar_questoes, lines 315-332: the
\* validations, the filtros dict and the selection of the requested years.
GerarDocumento ==
    /\ pc = "ocioso"
    /\ IF pedido.anos = <<>> \/ pedido.materias = <<>>
       THEN /\ pc' = "erro_validacao"
            /\ UNCHANGED <<filtros, i>>
       ELSE /\ filtros' = [posicoes |-> pedido.posicoes,
                           min_dif |-> pedido.min_dif,
                           max_dif |-> pedido.max_dif,
                           filtrar_quantidade |-> pedido.filtrar_quantidade,
                           quantidade |-> pedido.quantidade,
                           filtrar_dificuldade |-> ~(pedido.posicoes # <<>>),
                           filtrar_habilidade |-> pedido.filtrar_habilidade,
                           habilidades |-> pedido.habilidades]
            /\ IF df_consolidado = <<>> \/ DfAnos(df_consolidado, pedido.anos) = <<>>
               THEN pc' = "vazio" /\ i' = i
               ELSE pc' = "anos" /\ i' = 1
    /\ UNCHANGED <<df_consolidado, detalhes, quicksortEstavel, pedido,
                   df_ano_filtrado, dataframes_anos, df_questoes, j, questoes>>
    /\ UNCHANGED <<anterior, varsValidar, varsMarkup, varsDocumento>>

\* Faulty variant: the frame of the year is a view of the table, so that the
\* column ANO written to the rows kept is written to the table as well.
ProcessarAnoEscreveNaFonte ==
    /\ pc = "anos"
    /\ i <= Len(pedido.anos)
    /\ LET ano == IntDeAno(pedido.anos[i])
           df_ano == SelectSeq(DfAnos(df_consolidado, pedido.anos),
                               LAMBDA r : r.ANO_PROVA = ano)
           res == AplicarFiltros(df_ano, StrDeAno(ano), pedido.materias, filtros)
           marcado == [n \in 1..Len(res.df) |->
                          ComColuna(res.df[n], "ANO", StrDeAno(ano))]
           mantidos == {res.df[n].CO_ITEM : n \in 1..Len(res.df)}
       IN  IF res.erro
           THEN /\ pc' = "excecao"
                /\ UNCHANGED <<i, df_ano_filtrado, dataframes_anos, df_consolidado>>
           ELSE /\ pc' = pc
                /\ i' = i + 1
                /\ df_ano_filtrado' = marcado
                /\ dataframes_anos' = IF marcado # <<>>
                                      THEN Append(dataframes_anos, marcado)
                                      ELSE dataframes_anos
                /\ df_consolidado' =
                      [n \in 1..Len(df_consolidado) |->
                          IF df_consolidado[n].CO_ITEM \in mantidos
                          THEN ComColuna(df_consolidado[n], "ANO", StrDeAno(ano))
                          ELSE df_consolidado[n]]
    /\ UNCHANGED <<detalhes, quicksortEstavel, pedido, filtros,
                   df_questoes, j, questoes>>
    /\ UNCHANGED <<anterior, varsValidar, varsMarkup, varsDocumento>>

\* carregar_questoes, lines 335-341: one turn of the loop over the years.
ProcessarAno ==
    /\ pc = "anos"
    /\ i <= Len(pedido.anos)
    /\ LET ano == IntDeAno(pedido.anos[i])
           df_ano == SelectSeq(DfAnos(df_consolidado, pedido.anos),
                               LAMBDA r : r.ANO_PROVA = ano)
           res == AplicarFiltros(df_ano, StrDeAno(ano), pedido.materias, filtros)
           marcado == [n \in 1..Len(res.df) |->
                          ComColuna(res.df[n], "ANO", StrDeAno(ano))]
       IN  IF res.erro
           THEN /\ pc' = "excecao"
                /\ UNCHANGED <<i, df_ano_filtrado, dataframes_anos>>
           ELSE /\ pc' = pc
                /\ i' = i + 1
                /\ df_ano_filtrado' = marcado
                /\ dataframes_anos' = IF marcado # <<>>
                                      THEN Append(dataframes_anos, marcado)
                                      ELSE dataframes_anos
    /\ UNCHANGED <<df_consolidado, detalhes, quicksortEstavel, pedido, filtros,
                   df_questoes, j, questoes>>
    /\ UNCHANGED <<anterior, varsValidar, varsMarkup, varsDocumento>>

\* Faulty variant: the empty result is not told apart and goes on to the
\* processing of the questions.
CarregarQuestoesSemTeste ==
    /\ pc = "anos"
    /\ i > Len(pedido.anos)
    /\ df_questoes' = CombinarAnos(dataframes_anos, filtros)
    /\ pc' = "processando"
    /\ j' = 1
    /\ questoes' = <<>>
    /\ UNCHANGED <<df_consolidado, detalhes, quicksortEstavel, pedido, filtros, i,
                   df_ano_filtrado, dataframes_anos>>
    /\ UNCHANGED <<anterior, varsValidar, varsMarkup, varsDocumento>>

\* carregar_questoes, lines 343-357, and _gerar_documento, lines 643-651.
CarregarQuestoes ==
    /\ pc = "anos"
    /\ i > Len(pedido.anos)
    /\ df_questoes' = CombinarAnos(dataframes_anos, filtros)
    /\ IF df_questoes' = <<>>
       THEN pc' = "vazio" /\ j' = j
       ELSE pc' = "processando" /\ j' = 1
    /\ questoes' = <<>>
    /\ UNCHANGED <<df_consolidado, detalhes, quicksortEstavel, pedido, filtros, i,
                   df_ano_filtrado, dataframes_anos>>
    /\ UNCHANGED <<anterior, varsValidar, varsMarkup, varsDocumento>>

\* Faulty variant: a missing detail record ends the loop over the rows.
ProcessarQuestaoInterrompe ==
    /\ pc = "processando"
    /\ j <= Len(df_questoes)
    /\ LET row == df_questoes[j]
           ano == IntDeAno(row.ANO)
       IN  IF TemDetalhes(ano, row.CO_POSICAO)
           THEN /\ questoes' = Append(questoes, CriarObjetoQuestao(row, j, ano))
                /\ j' = j + 1
           ELSE /\ questoes' = questoes
                /\ j' = Len(df_questoes) + 1
    /\ UNCHANGED <<df_consolidado, detalhes, quicksortEstavel, pedido, pc, filtros, i,
                   df_ano_filtrado, dataframes_anos, df_questoes>>
    /\ UNCHANGED <<anterior, varsValidar, varsMarkup, varsDocumento>>

\* _processar_questoes, lines 672-693: one turn of the loop over the rows.
ProcessarQuestao ==
    /\ pc = "processando"
    /\ j <= Len(df_questoes)
    /\ LET row == df_questoes[j]
           ano == IntDeAno(row.ANO)
       IN  questoes' = IF TemDetalhes(ano, row.CO_POSICAO)
                       THEN Append(questoes, CriarObjetoQuestao(row, j, ano))
                       ELSE questoes
    /\ j' = j + 1
    /\ UNCHANGED <<df_consolidado, detalhes, quicksortEstavel, pedido, pc, filtros, i,
                   df_ano_filtrado, dataframes_anos, df_questoes>>
    /\ UNCHANGED <<anterior, varsValidar, varsMarkup, varsDocumento>>

\* _processar_questoes returns; _gerar_documento, lines 653-662.
ConcluirDocumento ==
    /\ pc = "processando"
    /\ j > Len(df_questoes)
    /\ pc' = IF questoes = <<>> THEN "erro_processar" ELSE "documento"
    /\ UNCHANGED <<df_consolidado, detalhes, quicksortEstavel, pedido, filtros, i,
                   df_ano_filtrado, dataframes_anos, df_questoes, j, questoes>>
    /\ UNCHANGED <<anterior, varsValidar, varsMarkup, varsDocumento>>

\* The script runs again for the next click: the handler's locals are gone, the
\* processor and its table stay.
NovoPedido ==
    /\ pc \in {"erro_validacao", "vazio", "excecao", "erro_processar", "documento"}
    /\ pc' = "ocioso"
    /\ filtros' = <<>>
    /\ i' = 0
    /\ df_ano_filtrado' = <<>>
    /\ dataframes_anos' = <<>>
    /\ df_questoes' = <<>>
    /\ j' = 0
    /\ questoes' = <<>>
    /\ UNCHANGED <<df_consolidado, detalhes, quicksortEstavel, pedido>>
    /\ UNCHANGED <<anterior, varsValidar, varsMarkup, varsDocumento>>

Next ==
    \/ GerarDocumento
    \/ ProcessarAno
    \/ CarregarQuestoes
    \/ ProcessarQuestao
    \/ ConcluirDocumento
    \/ NovoPedido

Spec == Init /\ [][Next]_vars

\* The states in which a request has ended.
Encerrado == pc \in {"erro_validacao", "vazio", "excecao", "erro_processar", "documento"}

\* The button is clicked a second time with the form and the table untouched:
\* as NovoPedido, the outcome of the first run being kept for comparison.
NovoPedidoIgual ==
    /\ Encerrado
    /\ anterior = <<>>
    /\ anterior' = <<[pc |-> pc, df_questoes |-> df_questoes]>>
    /\ pc' = "ocioso"
    /\ filtros' = <<>>
    /\ i' = 0
    /\ df_ano_filtrado' = <<>>
    /\ dataframes_anos' = <<>>
    /\ df_questoes' = <<>>
    /\ j' = 0
    /\ questoes' = <<>>
    /\ UNCHANGED <<df_consolidado, detalhes, quicksortEstavel, pedido>>
    /\ UNCHANGED <<varsValidar, varsMarkup, varsDocumento>>

NextReexecucao ==
    \/ GerarDocumento
    \/ ProcessarAno
    \/ CarregarQuestoes
    \/ ProcessarQuestao
    \/ ConcluirDocumento
    \/ NovoPedidoIgual

\* The same request run twice on the same table.
SpecReexecucao == Init /\ [][NextReexecucao]_vars

-----------------------------------------------------------------------------
(* FiltrosQuestoes.validar.  An Optional value is <<>> for None and <<v>>   *)
(* for the value v.                                                        *)

\* "not x" for an Optional[List]: None or the empty list.
ListaVazia(opt) == opt = <<>> \/ opt[1] = <<>>

\* "not x or x <= 0" for an Optional[int].
QuantidadeInvalida(opt) == opt = <<>> \/ opt[1] = 0 \/ opt[1] <= 0

Rejeita(mensagem) == [valido |-> FALSE, mensagem |-> <<mensagem>>]

\* Faulty variant: the conflict between the position and the quantity filter
\* is not looked for.
ValidarSemConflito(f) ==
    IF f.anos = <<>> THEN Rejeita("Selecione pelo menos um ano")
    ELSE IF f.materias = <<>> THEN Rejeita("Selecione pelo menos uma matéria")
    ELSE IF f.filtrar_por_dificuldade /\ f.dificuldade_minima > f.dificuldade_maxima
    THEN Rejeita("Dificuldade mínima não pode ser maior que a máxima")
    ELSE IF f.filtrar_por_numero /\ ListaVazia(f.numeros_questoes)
    THEN Rejeita("Digite os números das questões ou desmarque o filtro")
    ELSE IF f.filtrar_por_quantidade /\ QuantidadeInvalida(f.quantidade_questoes)
    THEN Rejeita("A quantidade de questões deve ser maior que zero")
    ELSE IF f.filtrar_por_habilidade /\ ListaVazia(f.habilidades)
    THEN Rejeita("Digite as habilidades desejadas ou desmarque o filtro")
    ELSE [valido |-> TRUE, mensagem |-> <<>>]

\* Faulty variant: the difficulty interval is not looked at.
ValidarSemDificuldade(f) ==
    IF f.anos = <<>> THEN Rejeita("Selecione pelo menos um ano")
    ELSE IF f.materias = <<>> THEN Rejeita("Selecione pelo menos uma matéria")
    ELSE IF f.filtrar_por_numero /\ ListaVazia(f.numeros_questoes)
    THEN Rejeita("Digite os números das questões ou desmarque o filtro")
    ELSE IF f.filtrar_por_quantidade /\ QuantidadeInvalida(f.quantidade_questoes)
    THEN Rejeita("A quantidade de questões deve ser maior que zero")
    ELSE IF f.filtrar_por_habilidade /\ ListaVazia(f.habilidades)
    THEN Rejeita("Digite as habilidades desejadas ou desmarque o filtro")
    ELSE IF f.filtrar_por_numero /\ f.filtrar_por_quantidade
    THEN Rejeita("Não é possível usar 'Selecionar por número' e 'Limitar quantidade' ao mesmo tempo")
    ELSE [valido |-> TRUE, mensagem |-> <<>>]

\* FiltrosQuestoes.validar: (valido, mensagem_erro).
Validar(f) ==
    IF f.anos = <<>> THEN Rejeita("Selecione pelo menos um ano")
    ELSE IF f.materias = <<>> THEN Rejeita("Selecione pelo menos uma matéria")
    ELSE IF f.filtrar_por_dificuldade /\ f.dificuldade_minima > f.dificuldade_maxima
    THEN Rejeita("Dificuldade mínima não pode ser maior que a máxima")
    ELSE IF f.filtrar_por_numero /\ ListaVazia(f.numeros_questoes)
    THEN Rejeita("Digite os números das questões ou desmarque o filtro")
    ELSE IF f.filtrar_por_quantidade /\ QuantidadeInvalida(f.quantidade_questoes)
    THEN Rejeita("A quantidade de questões deve ser maior que zero")
    ELSE IF f.filtrar_por_habilidade /\ ListaVazia(f.habilidades)
    THEN Rejeita("Digite as habilidades desejadas ou desmarque o filtro")
    ELSE IF f.filtrar_por_numero /\ f.filtrar_por_quantidade
    THEN Rejeita("Não é possível usar 'Selecionar por número' e 'Limitar quantidade' ao mesmo tempo")
    ELSE [valido |-> TRUE, mensagem |-> <<>>]

\* The FiltrosQuestoes objects of the model: every combination of the flags
\* with lists and quantities that are missing, empty or filled, and
\* difficulty bounds in either order.
Formularios ==
    [anos : {<<>>, <<"2020">>},
     materias : {<<>>, <<"MT">>},
     numeros_questoes : {<<>>, << <<>> >>, << <<1>> >>},
     dificuldade_minima : {1, 2000},
     dificuldade_maxima : {1, 2000},
     filtrar_por_numero : BOOLEAN,
     filtrar_por_dificuldade : BOOLEAN,
     filtrar_por_quantidade : BOOLEAN,
     quantidade_questoes : {<<>>, <<-1>>, <<0>>, <<1>>},
     filtrar_por_habilidade : BOOLEAN,
     habilidades : {<<>>, << <<>> >>, << <<1>> >>}]

\* No request is being handled and no table is loaded.
PedidoParado ==
    /\ df_consolidado = <<>>
    /\ detalhes = {}
    /\ quicksortEstavel = TRUE
    /\ pedido = PedidoPadrao
    /\ pc = "ocioso"
    /\ filtros = <<>>
    /\ i = 0
    /\ df_ano_filtrado = <<>>
    /\ dataframes_anos = <<>>
    /\ df_questoes = <<>>
    /\ j = 0
    /\ questoes = <<>>
    /\ anterior = <<>>

InitValidar ==
    /\ form \in Formularios
    /\ validacao = <<>>
    /\ PedidoParado
    /\ MarkupParado
    /\ DocumentoParado

\* entradas_avancado: the form's object is validated; the script stops on an
\* invalid one and returns the object otherwise.
EntradasAvancado ==
    /\ validacao = <<>>
    /\ validacao' = <<Validar(form)>>
    /\ UNCHANGED <<form, varsPedido, varsMarkup, varsDocumento>>

NextValidar == EntradasAvancado

SpecValidar == InitValidar /\ [][NextValidar]_vars

-----------------------------------------------------------------------------
(* ParagraphFormatter.  A text is a sequence of characters; indices into a  *)
(* text are 0-based as in the source, so the character at index k of t is  *)
(* t[k + 1].                                                               *)

\* The characters str.strip() and the regex class \s take for whitespace.
EhEspaco(c) == c \in {" ", "\n", "\t"}

\* t[a:b]
Fatia(t, a, b) == SubSeq(t, a + 1, b)

\* Faulty variant: only the whitespace at the start is taken off.
StripEsquerda(t) ==
    LET naoEspaco == {k \in 1..Len(t) : ~EhEspaco(t[k])}
        primeiro == CHOOSE k \in naoEspaco : \A m \in naoEspaco : k <= m
    IN  IF naoEspaco = {} THEN <<>> ELSE SubSeq(t, primeiro, Len(t))

\* str.strip()
Strip(t) ==
    LET naoEspaco == {k \in 1..Len(t) : ~EhEspaco(t[k])}
        primeiro == CHOOSE k \in naoEspaco : \A m \in naoEspaco : k <= m
        ultimo == CHOOSE k \in naoEspaco : \A m \in naoEspaco : m <= k
    IN  IF naoEspaco = {} THEN <<>> ELSE SubSeq(t, primeiro, ultimo)

\* t.startswith(d, p): the characters of d stand in t from index p on.
ComecaCom(t, p, d) ==
    /\ p + Len(d) <= Len(t)
    /\ \A k \in 1..Len(d) : t[p + k] = d[k]

\* _eh_lista_marcador
EhListaMarcador(t) ==
    ComecaCom(t, 0, <<"*", " ", "\\", "-">>) \/ ComecaCom(t, 0, <<"*", " ", "-">>)

\* The end of the match of ^\*\s*\\?- at the start of t, or -1.
FimDoMarcador(t) ==
    IF ~ComecaCom(t, 0, <<"*">>) THEN -1
    ELSE LET depois == {q \in 1..Len(t) : \A k \in 1..(q - 1) : EhEspaco(t[k + 1])}
             q == CHOOSE x \in depois : \A y \in depois : y <= x
         IN  IF ComecaCom(t, q, <<"\\", "-">>) THEN q + 2
             ELSE IF ComecaCom(t, q, <<"-">>) THEN q + 1
             ELSE -1

\* Faulty variant: the text after the marker is not stripped.
ExtrairConteudoSemStrip(t) ==
    IF EhListaMarcador(t)
    THEN IF FimDoMarcador(t) = -1 THEN t ELSE Fatia(t, FimDoMarcador(t), Len(t))
    ELSE t

\* _extrair_conteudo
ExtrairConteudo(t) ==
    IF EhListaMarcador(t)
    THEN Strip(IF FimDoMarcador(t) = -1 THEN t ELSE Fatia(t, FimDoMarcador(t), Len(t)))
    ELSE t

\* Faulty variant: the italic pattern stands before the subscript pattern.
DelimitadorItalicoPrimeiro(grupo) ==
    CASE grupo = 1 -> <<"*", "*">>
      [] grupo = 2 -> <<"_">>
      [] grupo = 3 -> <<"_", "_">>
      [] grupo = 4 -> <<"^">>

\* PATTERNS in the order of the dict, which is the order of the groups of the
\* compiled pattern: the delimiter of each.
Delimitador(grupo) ==
    CASE grupo = 1 -> <<"*", "*">>
      [] grupo = 2 -> <<"_", "_">>
      [] grupo = 3 -> <<"_">>
      [] grupo = 4 -> <<"^">>

\* The flag the handler sets for a group.
Formato(grupo) ==
    CASE grupo = 1 -> "bold"
      [] grupo = 2 -> "subscript"
      [] grupo = 3 -> "italic"
      [] grupo = 4 -> "superscript"

\* The end of the match of pattern d(?:.*?)d at index p of t, or -1: the
\* opening delimiter at p, the nearest closing delimiter after it, and no
\* line break in between ("." does not match one).
FimDoPadrao(t, grupo, p) ==
    LET d == Delimitador(grupo)
        fechos == {q \in (p + Len(d))..Len(t) :
                      /\ ComecaCom(t, q, d)
                      /\ \A k \in (p + Len(d))..(q - 1) : t[k + 1] # "\n"}
        q == CHOOSE x \in fechos : \A y \in fechos : x <= y
    IN  IF ~ComecaCom(t, p, d) \/ fechos = {} THEN -1 ELSE q + Len(d)

\* The groups whose pattern matches at index p.
GruposEm(t, p) == {g \in 1..4 : FimDoPadrao(t, g, p) # -1}

\* The match of the compiled pattern at index p: the first alternative that
\* matches there.
MatchEm(t, p) ==
    LET g == CHOOSE x \in GruposEm(t, p) : \A y \in GruposEm(t, p) : x <= y
    IN  [grupo |-> g, start |-> p, end |-> FimDoPadrao(t, g, p)]

\* The indices from which finditer can still find a match, scanning from p.
InicioDeMatch(t, p) == {q \in p..Len(t) : GruposEm(t, q) # {}}

\* The next match finditer yields when scanning from index p.
ProximoMatch(t, p) ==
    MatchEm(t, CHOOSE q \in InicioDeMatch(t, p) : \A r \in InicioDeMatch(t, p) : q <= r)

\* Faulty variant: every group is taken to have taken part in the match.
GrupoQualquer(t, m, grupo) == <<Fatia(t, m.start, m.end)>>

\* match.group(grupo): the matched text for the group that took part in the
\* match, None (<<>>) for the others.
Grupo(t, m, grupo) ==
    IF grupo = m.grupo THEN <<Fatia(t, m.start, m.end)>> ELSE <<>>

\* The alternatives of the pattern of re.sub in _processar_match, in order.
AlternativasDeRemocao ==
    << [d |-> <<"*", "*">>, ancora |-> "^"], [d |-> <<"*", "*">>, ancora |-> "$"],
       [d |-> <<"_", "_">>, ancora |-> "^"], [d |-> <<"_", "_">>, ancora |-> "$"],
       [d |-> <<"_">>,      ancora |-> "^"], [d |-> <<"_">>,      ancora |-> "$"],
       [d |-> <<"^">>,      ancora |-> "^"], [d |-> <<"^">>,      ancora |-> "$"] >>

\* "$" at index e of g: the end of g, or just before a final line break.
NoFim(g, e) == e = Len(g) \/ (e = Len(g) - 1 /\ g[Len(g)] = "\n")

\* Whether an alternative matches at index p of g.
AlternativaCasa(g, p, alt) ==
    /\ ComecaCom(g, p, alt.d)
    /\ IF alt.ancora = "^" THEN p = 0 ELSE NoFim(g, p + Len(alt.d))

RECURSIVE RemoverDe(_, _)
\* re.sub(pattern, "", g) from index p on: the leftmost matches, each by the
\* first alternative that matches there, are left out.
RemoverDe(g, p) ==
    IF p >= Len(g) THEN <<>>
    ELSE LET casam == {n \in 1..Len(AlternativasDeRemocao) :
                          AlternativaCasa(g, p, AlternativasDeRemocao[n])}
             n == CHOOSE x \in casam : \A y \in casam : x <= y
         IN  IF casam = {} THEN <<g[p + 1]>> \o RemoverDe(g, p + 1)
             ELSE RemoverDe(g, p + Len(AlternativasDeRemocao[n].d))

\* Faulty variant: every delimiter character of the matched text is left out.
RemoverTodos(g) == SelectSeq(g, LAMBDA c : c \notin {"*", "_", "^"})

\* re.sub(r"(^\*\*|\*\*$|^__|__$|^_|_$|^\^|\^$)", "", g)
RemoverDelimitadores(g) == RemoverDe(g, 0)

\* par.add_run(text): a run with no flag set; inicio and fim keep the slice
\* of the text the run was made from.
Run(text, inicio, fim) ==
    [text |-> text, bold |-> FALSE, subscript |-> FALSE, italic |-> FALSE,
     superscript |-> FALSE, inicio |-> inicio, fim |-> fim]

\* aplicar_formato(run) for a group.
ComFormato(run, grupo) ==
    [f \in DOMAIN run |-> IF f = Formato(grupo) THEN TRUE ELSE run[f]]

RECURSIVE ProcessarMatchEm(_, _, _)
\* _processar_match: the runs the loop over formatacoes adds, the set being
\* iterated in the order o: the first group of the order that is not empty
\* gives one run, and the loop breaks.
ProcessarMatchEm(t, m, o) ==
    IF o = <<>> THEN <<>>
    ELSE LET g == Grupo(t, m, Head(o))
         IN  IF g # <<>> /\ g[1] # <<>>
             THEN <<ComFormato(Run(RemoverDelimitadores(g[1]), m.start, m.end), Head(o))>>
             ELSE ProcessarMatchEm(t, m, Tail(o))

\* The orders in which the set formatacoes can be iterated.
Ordens == {o \in [1..4 -> 1..4] : \A a, b \in 1..4 : o[a] = o[b] => a = b}

\* A text written as its characters.
TextoC16 ==
    <<"*", "*", "A", "*", "*", " ", "a", "n", "d", " ", "_", "B", "_", " ", "a", "n", "d",
      " ", "^", "C", "^", " ", "a", "n", "d", " ", "_", "_", "D", "_", "_">>

\* The characters of the generated texts: the delimiters and a letter.
Alfabeto == {"*", "_", "^", "a"}

\* Whitespace before and after a text, and the texts it is put around.
Margens == {<<>>, <<" ">>, <<"\n", "\t">>}

Nucleos == {<<>>, <<"a">>, <<"a", " ", "a">>, <<"_", "a", "_">>, <<"^", " ", "a">>}

\* The texts handed to adicionar_paragrafo_formatado: every text over the
\* alphabet up to the length bound, texts with whitespace around them, and
\* texts with a line break, a list marker and longer spans.
Textos ==
    SeqAte(Alfabeto, MaxTexto)
    \cup {e1 \o n \o e2 : e1 \in Margens, n \in Nucleos, e2 \in Margens}
    \cup {TextoC16,
          <<"*", "*", "a", "*", "*">>,
          <<"_", "_", "a", "_", "_">>,
          <<"_", "_", "_", "a", "_", "_">>,
          <<"_", "_", "a", "_", "_", "_">>,
          <<"*", "*", "*", "a", "*", "*">>,
          <<"^", "a", "^", "_", "a", "_">>,
          <<"_", "a", "*", "*", "_", "a", "*", "*">>,
          <<"a", "_", "_", "a", "_", "_", "a">>,
          <<"*", "*", "a", "\n", "b", "*", "*">>,
          <<"_", "a", "\n", "_", "b", "_">>,
          <<"\n", "a", " ", "b", "\t">>,
          <<"*", " ", "-", " ", "a", " ", "*", "*", "b", "*", "*">>,
          <<"*", " ", "\\", "-", "_", "a", "_">>,
          <<"*", " ", "-">>,
          <<"*", " ", "-", " ", "*", " ", "-", " ", "a">>,
          <<"*", " ", "\\", "-", " ", "a", " ", "a">>,
          <<"*", " ", "-", "-", "a">>,
          <<"*", " ", " ", "-", " ", "a">>,
          <<"*", "-", " ", "a">>,
          <<"a", " ", "*", " ", "-", " ", "a">>,
          <<" ", "*", " ", "-", "\t", "\n", "a", " ", "\n">>,
          <<"*", "*", "a", "_", "b", "_", "*", "*", "_", "_", "c", "^", "_", "_">>}

InitMarkup ==
    /\ texto \in Textos
    /\ estilo = ""
    /\ conteudo = <<>>
    /\ last_index = 0
    /\ ordem = <<>>
    /\ runs = <<>>
    /\ pm = "parado"
    /\ PedidoParado
    /\ ValidarParado
    /\ DocumentoParado

\* adicionar_paragrafo_formatado, lines 125-131: the text is stripped, the
\* paragraph is created with its style and the content is extracted.
AdicionarParagrafoFormatado ==
    /\ pm = "parado"
    /\ estilo' = IF EhListaMarcador(Strip(texto)) THEN "List Bullet" ELSE "Normal"
    /\ conteudo' = ExtrairConteudo(Strip(texto))
    /\ last_index' = 0
    /\ runs' = <<>>
    /\ pm' = "laco"
    /\ UNCHANGED <<texto, ordem, varsPedido, varsValidar, varsDocumento>>

\* _aplicar_formatacao, lines 156-165: one turn of the loop over the matches.
ProcessarMatch ==
    /\ pm = "laco"
    /\ InicioDeMatch(conteudo, last_index) # {}
    /\ LET m == ProximoMatch(conteudo, last_index)
           antes == IF m.start > last_index
                    THEN <<Run(Fatia(conteudo, last_index, m.start), last_index, m.start)>>
                    ELSE <<>>
       IN  /\ \E o \in Ordens :
                /\ ordem' = o
                /\ runs' = runs \o antes \o ProcessarMatchEm(conteudo, m, o)
           /\ last_index' = m.end
    /\ UNCHANGED <<texto, estilo, conteudo, pm, varsPedido, varsValidar, varsDocumento>>

\* _aplicar_formatacao, lines 167-169: the text after the last match.
AdicionarRestante ==
    /\ pm = "laco"
    /\ InicioDeMatch(conteudo, last_index) = {}
    /\ runs' = IF last_index < Len(conteudo)
               THEN Append(runs, Run(Fatia(conteudo, last_index, Len(conteudo)),
                                     last_index, Len(conteudo)))
               ELSE runs
    /\ pm' = "fim"
    /\ UNCHANGED <<texto, estilo, conteudo, last_index, ordem, varsPedido, varsValidar, varsDocumento>>

NextMarkup ==
    \/ AdicionarParagrafoFormatado
    \/ ProcessarMatch
    \/ AdicionarRestante

SpecMarkup == InitMarkup /\ [][NextMarkup]_vars

-----------------------------------------------------------------------------
(* GeradorDocumento.  What is added to the document is kept as a sequence  *)
(* of instructions: one per paragraph, per call of _adicionar_imagem and   *)
(* per page break.  A context is a sequence of atoms: a character or a     *)
(* whole markdown image reference.                                         *)

LARGURA_IMAGEM_CONTEXTO == 9
LARGURA_IMAGEM_QUESTAO == 7
LARGURA_IMAGEM_ALTERNATIVA == 5

\* An instruction of the given kind, made by the given part of question n
\* for the element at the given index of that part.
Instrucao(tipo, origem, n, indice) ==
    [tipo |-> tipo, origem |-> origem, questao |-> n, indice |-> indice,
     numero |-> 0, texto |-> <<>>, letra |-> "", url |-> "", largura |-> 0,
     ok |-> TRUE]

\* The atoms of a context: a letter, a blank, and the image references
\* ![](u1) and ![]( u2 ), the second with blanks around its url.
Atomos == {"a", " ", "![](u1)", "![]( u2 )"}

\* The atom matches the pattern !\[[^\]]*\]\(([^)]+)\), and its group 1.
EhImagem(atomo) == atomo \in {"![](u1)", "![]( u2 )"}

Captura(atomo) ==
    CASE atomo = "![](u1)" -> "u1"
      [] atomo = "![]( u2 )" -> " u2 "

\* str.strip() of a captured url.
StripUrl(url) == IF url = " u2 " THEN "u2" ELSE url

RECURSIVE Partes(_)
\* re.split(pattern, contexto): the texts between the image references at the
\* even 0-based places, the captured urls at the odd ones.
Partes(c) ==
    LET imagens == {k \in 1..Len(c) : EhImagem(c[k])}
        k == CHOOSE x \in imagens : \A y \in imagens : x <= y
    IN  IF imagens = {} THEN <<[texto |-> c, url |-> ""]>>
        ELSE <<[texto |-> SubSeq(c, 1, k - 1), url |-> ""],
               [texto |-> <<>>, url |-> Captura(c[k])]>>
             \o Partes(SubSeq(c, k + 1, Len(c)))

\* _adicionar_titulo_questao
AdicionarTituloQuestao(questao, n) ==
    <<[Instrucao("titulo", "titulo", n, 0) EXCEPT !.numero = questao.numero]>>

\* _processar_contexto: the instructions and the set it returns; disponiveis
\* are the urls _adicionar_imagem can get, from the cache or by download.
ProcessarContexto(contexto, n, disponiveis) ==
    LET partes == Partes(contexto)
        parte(k) ==
            IF k % 2 = 1
            THEN IF Strip(partes[k].texto) # <<>>
                 THEN <<[Instrucao("paragrafo_formatado", "contexto", n, k)
                            EXCEPT !.texto = Strip(partes[k].texto)]>>
                 ELSE <<>>
            ELSE <<[Instrucao("imagem", "contexto", n, k)
                       EXCEPT !.url = StripUrl(partes[k].url),
                              !.largura = LARGURA_IMAGEM_CONTEXTO,
                              !.ok = StripUrl(partes[k].url) \in disponiveis]>>
    IN  [instrucoes |-> Concat([k \in 1..Len(partes) |-> parte(k)]),
         imagens_processadas |->
            {StripUrl(partes[k].url) : k \in {x \in 1..Len(partes) : x % 2 = 0}}]

\* Faulty variant: every file of the question is added, processed or not.
AdicionarImagensQuestaoTodas(urls_imagens, imagens_ja_processadas, n, disponiveis) ==
    [k \in 1..Len(urls_imagens) |->
        [Instrucao("imagem", "questao", n, k)
            EXCEPT !.url = urls_imagens[k],
                   !.largura = LARGURA_IMAGEM_QUESTAO,
                   !.ok = urls_imagens[k] \in disponiveis]]

\* _adicionar_imagens_questao
AdicionarImagensQuestao(urls_imagens, imagens_ja_processadas, n, disponiveis) ==
    Concat([k \in 1..Len(urls_imagens) |->
        IF urls_imagens[k] \notin imagens_ja_processadas
        THEN <<[Instrucao("imagem", "questao", n, k)
                   EXCEPT !.url = urls_imagens[k],
                          !.largura = LARGURA_IMAGEM_QUESTAO,
                          !.ok = urls_imagens[k] \in disponiveis]>>
        ELSE <<>>])

\* _adicionar_referencias
AdicionarReferencias(referencias, n) ==
    <<[Instrucao("referencias", "referencias", n, 0) EXCEPT !.texto = <<referencias>>]>>

\* _adicionar_alternativa: a paragraph for the text, a paragraph with the
\* letter and the picture for the file; rede are the urls a download gets.
AdicionarAlternativa(alternativa, n, k, rede) ==
    (IF alternativa.text # ""
     THEN <<[Instrucao("paragrafo_formatado", "alternativa", n, k)
                EXCEPT !.letra = alternativa.letter, !.texto = <<alternativa.text>>]>>
     ELSE <<>>)
    \o (IF alternativa.file # ""
        THEN <<[Instrucao("paragrafo_imagem", "alternativa", n, k)
                   EXCEPT !.letra = alternativa.letter,
                          !.url = alternativa.file,
                          !.largura = LARGURA_IMAGEM_ALTERNATIVA,
                          !.ok = alternativa.file \in rede]>>
        ELSE <<>>)

\* _adicionar_alternativas
AdicionarAlternativas(alternativas, n, rede) ==
    Concat([k \in 1..Len(alternativas) |-> AdicionarAlternativa(alternativas[k], n, k, rede)])

\* Faulty variant: the references come before the context.
AdicionarQuestaoReferenciasAntes(questao, n, cache, rede) ==
    LET ctx == IF questao.contexto # <<>>
               THEN ProcessarContexto(questao.contexto, n, cache \cup rede)
               ELSE [instrucoes |-> <<>>, imagens_processadas |-> {}]
    IN  AdicionarTituloQuestao(questao, n)
        \o (IF questao.referencias # ""
            THEN AdicionarReferencias(questao.referencias, n) ELSE <<>>)
        \o ctx.instrucoes
        \o AdicionarImagensQuestao(questao.arquivos, ctx.imagens_processadas, n,
                                   cache \cup rede)
        \o (IF questao.introducao_alternativas # ""
            THEN <<[Instrucao("paragrafo_formatado", "introducao", n, 0)
                       EXCEPT !.texto = <<questao.introducao_alternativas>>]>>
            ELSE <<>>)
        \o AdicionarAlternativas(questao.alternativas, n, rede)

\* _adicionar_questao: the instructions of question n of the list.
AdicionarQuestao(questao, n, cache, rede) ==
    LET ctx == IF questao.contexto # <<>>
               THEN ProcessarContexto(questao.contexto, n, cache \cup rede)
               ELSE [instrucoes |-> <<>>, imagens_processadas |-> {}]
    IN  AdicionarTituloQuestao(questao, n)
        \o ctx.instrucoes
        \o AdicionarImagensQuestao(questao.arquivos, ctx.imagens_processadas, n,
                                   cache \cup rede)
        \o (IF questao.referencias # ""
            THEN AdicionarReferencias(questao.referencias, n) ELSE <<>>)
        \o (IF questao.introducao_alternativas # ""
            THEN <<[Instrucao("paragrafo_formatado", "introducao", n, 0)
                       EXCEPT !.texto = <<questao.introducao_alternativas>>]>>
            ELSE <<>>)
        \o AdicionarAlternativas(questao.alternativas, n, rede)

\* Faulty variant: the lines of the answer key are numbered by their place.
AdicionarGabaritoPorLugar(lista) ==
    <<Instrucao("quebra", "gabarito", 0, 0),
      [Instrucao("paragrafo", "gabarito", 0, 0) EXCEPT !.texto = <<"Gabarito">>]>>
    \o [n \in 1..Len(lista) |->
           [Instrucao("gabarito", "gabarito", 0, n)
               EXCEPT !.numero = n, !.letra = lista[n].gabarito]]

\* _adicionar_gabarito
AdicionarGabarito(lista) ==
    <<Instrucao("quebra", "gabarito", 0, 0),
      [Instrucao("paragrafo", "gabarito", 0, 0) EXCEPT !.texto = <<"Gabarito">>]>>
    \o [n \in 1..Len(lista) |->
           [Instrucao("gabarito", "gabarito", 0, n)
               EXCEPT !.numero = lista[n].numero, !.letra = lista[n].gabarito]]

\* The urls _adicionar_imagem was called with and got by download.
Baixadas(instrucoes, rede) ==
    {instrucoes[k].url : k \in {x \in 1..Len(instrucoes) :
                                   /\ instrucoes[x].tipo = "imagem"
                                   /\ instrucoes[x].url \in rede}}

\* An alternative of details.json and a Questao without its number.
Alternativa(letter, text, file) == [letter |-> letter, text |-> text, file |-> file]

QuestaoModelo(gabarito, contexto, arquivos, referencias, introducao, alternativas) ==
    [numero |-> 0, gabarito |-> gabarito, contexto |-> contexto,
     referencias |-> referencias, introducao_alternativas |-> introducao,
     alternativas |-> alternativas, arquivos |-> arquivos]

\* Lists of up to two alternatives, each with or without a text and a file.
AlternativasModelo ==
    LET conteudos == {"", "t"} \X {"", "u3"}
    IN  {<<>>}
        \cup {<<Alternativa("A", a[1], a[2])>> : a \in conteudos}
        \cup {<<Alternativa("A", a[1], a[2]), Alternativa("B", b[1], b[2])>> :
                 a \in conteudos, b \in conteudos}

\* Questions that differ in their context and files, and in their
\* references, introduction and alternatives.
QuestoesContexto ==
    {QuestaoModelo("A", c, a, "r", "i", <<Alternativa("A", "t", "")>>) :
        c \in SeqAte(Atomos, MaxContexto),
        a \in {<<>>, <<"u1">>, <<"u2", "u1">>, <<"u3", "u3">>}}

QuestoesAlternativas ==
    {QuestaoModelo("B", <<"a">>, <<>>, ri[1], ri[2], alts) :
        ri \in {<<"", "">>, <<"r", "">>, <<"", "i">>},
        alts \in AlternativasModelo}

\* The questions of the documents of more than one question.
QuestoesVarias ==
    {QuestaoModelo("C", <<"a", "![](u1)", "a">>, <<"u2", "u1">>, "r", "i",
                   <<Alternativa("A", "t", ""), Alternativa("B", "", "u3")>>),
     QuestaoModelo("D", <<"![]( u2 )">>, <<"u1">>, "", "",
                   <<Alternativa("A", "t", "u3"), Alternativa("B", "", "")>>),
     QuestaoModelo("E", <<>>, <<>>, "r", "", <<>>)}

\* The numbers _processar_questoes gives: ascending, with or without gaps.
Numeracoes(n) ==
    {s \in [1..n -> 1..(n + 1)] : \A a, b \in 1..n : a < b => s[a] < s[b]}

Numerada(lista, numeros) ==
    [n \in 1..Len(lista) |-> [lista[n] EXCEPT !.numero = numeros[n]]]

\* The lists criar_documento is called with: never empty (lines 653-655).
ListasDeQuestoes ==
    {Numerada(<<p>>, <<1>>) : p \in QuestoesContexto \cup QuestoesAlternativas}
    \cup UNION {{Numerada(lista, numeros) : lista \in [1..n -> QuestoesVarias],
                                            numeros \in Numeracoes(n)} :
                   n \in 2..MaxQuestoes}

\* The outcomes of the downloads during one question: the urls requests.get
\* gets.
Redes == SUBSET {"u1", "u2", "u3"}

InitDocumento ==
    /\ lista_questoes \in ListasDeQuestoes
    /\ doc = <<>>
    /\ questao_idx = 0
    /\ imagens_cache = {}
    /\ pg = "parado"
    /\ PedidoParado
    /\ ValidarParado
    /\ MarkupParado

\* criar_documento, lines 76-77: the empty configured document.
CriarDocumento ==
    /\ pg = "parado"
    /\ doc' = <<>>
    /\ questao_idx' = 1
    /\ pg' = "questoes"
    /\ UNCHANGED <<lista_questoes, imagens_cache, varsPedido, varsValidar, varsMarkup>>

\* criar_documento, lines 80-81: one turn of the loop over the questions.
AdicionarQuestaoAoDocumento ==
    /\ pg = "questoes"
    /\ questao_idx <= Len(lista_questoes)
    /\ \E rede \in Redes :
          LET instrucoes == AdicionarQuestao(lista_questoes[questao_idx], questao_idx,
                                            imagens_cache, rede)
          IN  /\ doc' = doc \o instrucoes
              /\ imagens_cache' = imagens_cache \cup Baixadas(instrucoes, rede)
    /\ questao_idx' = questao_idx + 1
    /\ UNCHANGED <<lista_questoes, pg, varsPedido, varsValidar, varsMarkup>>

\* criar_documento, lines 83-86: the answer key, and the document is returned.
AdicionarGabaritoAoDocumento ==
    /\ pg = "questoes"
    /\ questao_idx > Len(lista_questoes)
    /\ doc' = doc \o AdicionarGabarito(lista_questoes)
    /\ pg' = "fim"
    /\ UNCHANGED <<lista_questoes, questao_idx, imagens_cache, varsPedido, varsValidar,
                   varsMarkup>>

NextDocumento ==
    \/ CriarDocumento
    \/ AdicionarQuestaoAoDocumento
    \/ AdicionarGabaritoAoDocumento

SpecDocumento == InitDocumento /\ [][NextDocumento]_vars

-----------------------------------------------------------------------------
(* Vocabulary of the properties. *)

\* A turn of the loop over the years has just ended without raising.
AnoProcessado == pc = "anos" /\ i > 1

\* The year string of that turn.
AnoAtual == pedido.anos[i - 1]

\* The requested subjects the index resolves for a year.
MateriasResolvidas(ano) ==
    {m \in Range(pedido.materias) :
        ano \in DOMAIN provas_regulares /\ m \in DOMAIN provas_regulares[ano]}

\* The rows of the table a resolvable (year, subject) pair of the request
\* selects: the year, the subject and the subject's exam code of that year.
LinhasCasadas(ano) ==
    {r \in Range(df_consolidado) :
        /\ r.ANO_PROVA = IntDeAno(ano)
        /\ \E m \in MateriasResolvidas(ano) :
              r.SG_AREA = m /\ r.CO_PROVA = provas_regulares[ano][m]}

\* The skill filter is in force, and the rows it lets through.
HabilidadeAtiva == pedido.filtrar_habilidade /\ pedido.habilidades # <<>>

LinhasSelecionadas(ano) ==
    {r \in LinhasCasadas(ano) :
        HabilidadeAtiva => r.CO_HABILIDADE \in Range(pedido.habilidades) \ {NaN}}

Itens(df) == {df[n].CO_ITEM : n \in 1..Len(df)}

ItensDe(S) == {r.CO_ITEM : r \in S}

Posicoes(df) == [n \in 1..Len(df) |-> df[n].CO_POSICAO]

\* The requested positions as numbers.
Pedidas == ParsePosicoes(pedido.posicoes)

SemRepeticao(s) == \A m, n \in 1..Len(s) : s[m] = s[n] => m = n

\* The difficulties of df never decrease, rows without one coming last.
NaoDecrescente(df) ==
    \A m, n \in 1..Len(df) :
        m < n => \/ IsNaN(df[n].NU_PARAM_B)
                 \/ /\ ~IsNaN(df[m].NU_PARAM_B)
                    /\ df[m].NU_PARAM_B <= df[n].NU_PARAM_B

\* Row r comes no later than row s under (year ascending, difficulty
\* ascending), a row without a difficulty being the last of its year.
AnoDificuldadeMenorIgual(r, s) ==
    \/ r.ANO_PROVA < s.ANO_PROVA
    \/ /\ r.ANO_PROVA = s.ANO_PROVA
       /\ \/ IsNaN(s.NU_PARAM_B)
          \/ ~IsNaN(r.NU_PARAM_B) /\ r.NU_PARAM_B <= s.NU_PARAM_B

\* The request has gone past the loop over the years.
CarregamentoEncerrado == pc \notin {"ocioso", "anos"}

\* carregar_questoes has returned a non-empty table.
Carregado == pc \in {"processando", "documento", "erro_processar"}

-----------------------------------------------------------------------------
(* C1 *)

\* The case of C1: a position list without repeats, every position of which
\* one of the year's selected rows holds.
C1_Caso ==
    /\ AnoProcessado
    /\ Pedidas # <<>>
    /\ SemRepeticao(Pedidas)
    /\ \A p \in Range(Pedidas) : \E r \in LinhasSelecionadas(AnoAtual) : r.CO_POSICAO = p

\* C1: with a position list [p1..pk] without repeats, all of whose positions the
\* year's selected rows hold, the year's result has the positions [p1..pk] in
\* the caller's order, and the row kept for a position is the first of the
\* selected rows, in storage order, that holds it.
C1_OrdemDoPedido ==
    C1_Caso =>
        /\ Posicoes(df_ano_filtrado) = Pedidas
        /\ \A n \in 1..Len(df_ano_filtrado) :
              \A r \in LinhasSelecionadas(AnoAtual) :
                  r.CO_POSICAO = df_ano_filtrado[n].CO_POSICAO
                      => df_ano_filtrado[n].CO_ITEM <= r.CO_ITEM

\* Reached: a list in descending order, the rows stored in another order, and
\* two selected rows sharing a requested position.
C1_Witness ==
    /\ C1_Caso
    /\ Len(Pedidas) >= 2
    /\ Pedidas[1] > Pedidas[2]
    /\ \E r, s \in LinhasSelecionadas(AnoAtual) :
          /\ r.CO_ITEM < s.CO_ITEM
          /\ r.CO_POSICAO = s.CO_POSICAO
          /\ r.CO_POSICAO \in Range(Pedidas)
    /\ \E r, s \in LinhasSelecionadas(AnoAtual) :
          r.CO_ITEM < s.CO_ITEM /\ r.CO_POSICAO = Pedidas[2] /\ s.CO_POSICAO = Pedidas[1]

-----------------------------------------------------------------------------
(* C2 *)

\* C2: when the position list repeats a position the filter still returns: the
\* run does not end in an exception, and every requested position the year's
\* selected rows hold appears exactly once in the year's result.
C2_RepeticaoColapsada ==
    (Pedidas # <<>> /\ ~SemRepeticao(Pedidas)) =>
        /\ pc # "excecao"
        /\ AnoProcessado =>
              \A p \in Range(Pedidas) :
                  (\E r \in LinhasSelecionadas(AnoAtual) : r.CO_POSICAO = p)
                      => Cardinality({n \in 1..Len(df_ano_filtrado) :
                                         df_ano_filtrado[n].CO_POSICAO = p}) = 1

-----------------------------------------------------------------------------
(* C3 *)

\* The case of C3 and C4: a year processed with no position filter, so that
\* the difficulty filter ran, on an interval with min <= max.
C3_Caso ==
    /\ AnoProcessado
    /\ pedido.posicoes = <<>>
    /\ pedido.min_dif <= pedido.max_dif

\* C3 as stated: every surviving row has min <= difficulty <= max, and the
\* surviving sequence never decreases by difficulty, for every min and max.
C3_DentroDoIntervalo ==
    C3_Caso =>
        /\ \A n \in 1..Len(df_ano_filtrado) :
              /\ ~IsNaN(df_ano_filtrado[n].NU_PARAM_B)
              /\ pedido.min_dif <= df_ano_filtrado[n].NU_PARAM_B
              /\ df_ano_filtrado[n].NU_PARAM_B <= pedido.max_dif
        /\ NaoDecrescente(df_ano_filtrado)

\* C3 amended: a bound is enforced unless it is the value that stands for "no
\* bound" (min = 0, max = 2000): a surviving row has difficulty >= min when
\* min # 0 and difficulty <= max when max # 2000, a row without a numeric
\* difficulty survives only when min = 0 and max = 2000, and the surviving
\* sequence never decreases by difficulty, rows without one coming last.
C3_LimitesSentinela ==
    C3_Caso =>
        /\ \A n \in 1..Len(df_ano_filtrado) :
              LET b == df_ano_filtrado[n].NU_PARAM_B
              IN  /\ pedido.min_dif # 0 => ~IsNaN(b) /\ pedido.min_dif <= b
                  /\ pedido.max_dif # 2000 => ~IsNaN(b) /\ b <= pedido.max_dif
        /\ NaoDecrescente(df_ano_filtrado)

\* Reached: an interval with both bounds in force that excluded a row below,
\* a row above and a row without difficulty, and kept two rows it had to sort.
C3_Witness ==
    /\ C3_Caso
    /\ pedido.min_dif # 0
    /\ pedido.max_dif # 2000
    /\ Len(df_ano_filtrado) >= 1
    /\ \E r \in LinhasSelecionadas(AnoAtual) :
          ~IsNaN(r.NU_PARAM_B) /\ r.NU_PARAM_B < pedido.min_dif
    /\ \E r \in LinhasSelecionadas(AnoAtual) :
          IsNaN(r.NU_PARAM_B) \/ r.NU_PARAM_B > pedido.max_dif

\* Reached: the bounds 0 and 2000 and two rows stored in descending order of
\* difficulty, which the stage had to sort.
C3_WitnessOrdem ==
    /\ C3_Caso
    /\ pedido.min_dif = 0
    /\ pedido.max_dif = 2000
    /\ Len(df_ano_filtrado) >= 2
    /\ \E r, s \in LinhasSelecionadas(AnoAtual) :
          /\ r.CO_ITEM < s.CO_ITEM
          /\ ~IsNaN(r.NU_PARAM_B) /\ ~IsNaN(s.NU_PARAM_B)
          /\ r.NU_PARAM_B > s.NU_PARAM_B

-----------------------------------------------------------------------------
(* C4 *)

\* C4: with the form's default interval [1, 2000], no position filter and no
\* skill filter, the year's result holds every subject/exam-matched row of the
\* year, sorted ascending by difficulty.
C4_PadraoNaoExclui ==
    (/\ AnoProcessado
     /\ pedido.posicoes = <<>>
     /\ ~HabilidadeAtiva
     /\ pedido.min_dif = 1
     /\ pedido.max_dif = 2000) =>
        /\ Itens(df_ano_filtrado) = ItensDe(LinhasCasadas(AnoAtual))
        /\ NaoDecrescente(df_ano_filtrado)

-----------------------------------------------------------------------------
(* C5 *)

\* The combined result before the cap: the per-year results one after another.
PreCorte == Concat(dataframes_anos)

\* The case of C5: a quantity cap in force and no position filter.
C5_Caso ==
    /\ Carregado
    /\ pedido.filtrar_quantidade
    /\ pedido.quantidade > 0
    /\ pedido.posicoes = <<>>

\* C5: with a cap Q and M rows before the cap, all M rows survive when M <= Q;
\* when M > Q exactly Q rows survive, and each of them comes no later under
\* (year ascending, difficulty ascending) than each row that was dropped.
C5_CorteMenores ==
    C5_Caso =>
        IF Len(PreCorte) <= pedido.quantidade
        THEN Itens(df_questoes) = Itens(PreCorte) /\ Len(df_questoes) = Len(PreCorte)
        ELSE /\ Len(df_questoes) = pedido.quantidade
             /\ Itens(df_questoes) \subseteq Itens(PreCorte)
             /\ Cardinality(Itens(df_questoes)) = pedido.quantidade
             /\ \A m \in 1..Len(df_questoes) : \A n \in 1..Len(PreCorte) :
                   PreCorte[n].CO_ITEM \notin Itens(df_questoes)
                       => AnoDificuldadeMenorIgual(df_questoes[m], PreCorte[n])

\* Reached: more rows than the cap, and the rows kept are not the first Q of
\* the combined result: a later row of an earlier year displaced them.
C5_Witness ==
    /\ C5_Caso
    /\ Len(PreCorte) > pedido.quantidade
    /\ Itens(df_questoes) # Itens(HeadDf(PreCorte, pedido.quantidade))

\* Reached: a cap that the combined result does not exceed.
C5_WitnessSemCorte ==
    /\ C5_Caso
    /\ Len(PreCorte) >= 2
    /\ Len(PreCorte) <= pedido.quantidade

-----------------------------------------------------------------------------
(* C6 *)

\* The scenario of C6: years 2020 and 2021 requested, each with MT and LC rows
\* in the table, subject MT alone, a cap of 10, no position or skill filter and
\* no difficulty bound, and at least 10 MT rows of the reference exams.
C6_Cenario ==
    /\ Range(pedido.anos) = {"2020", "2021"}
    /\ pedido.materias = <<"MT">>
    /\ pedido.filtrar_quantidade /\ pedido.quantidade = 10
    /\ pedido.posicoes = <<>>
    /\ ~HabilidadeAtiva
    /\ pedido.min_dif = 0 /\ pedido.max_dif = 2000
    /\ \A a \in {2020, 2021} : \A m \in {"MT", "LC"} :
          \E r \in Range(df_consolidado) : r.ANO_PROVA = a /\ r.SG_AREA = m
    /\ Cardinality(LinhasCasadas("2020") \cup LinhasCasadas("2021")) >= 10

\* C6 as stated: the result has exactly 10 questions numbered 1..10, the 10
\* lowest-difficulty MT rows of the two years taken together.
C6_DezMenoresDosDoisAnos ==
    (C6_Cenario /\ CarregamentoEncerrado) =>
        /\ Carregado
        /\ Len(df_questoes) = 10
        /\ \A n \in 1..Len(df_questoes) : df_questoes[n].NUMERO_QUESTAO = n
        /\ \A n \in 1..Len(df_questoes) :
              \A r \in LinhasCasadas("2020") \cup LinhasCasadas("2021") :
                  r.CO_ITEM \notin Itens(df_questoes)
                      => df_questoes[n].NU_PARAM_B <= r.NU_PARAM_B

\* C6 amended: the result has exactly 10 questions numbered 1..10, the 10 MT
\* rows that come first under (year ascending, then difficulty ascending):
\* the rows of 2020 by difficulty, then those of 2021.
C6_DezPrimeirosPorAno ==
    (C6_Cenario /\ CarregamentoEncerrado) =>
        /\ Carregado
        /\ Len(df_questoes) = 10
        /\ \A n \in 1..Len(df_questoes) : df_questoes[n].NUMERO_QUESTAO = n
        /\ Itens(df_questoes) \subseteq
              ItensDe(LinhasCasadas("2020") \cup LinhasCasadas("2021"))
        /\ Cardinality(Itens(df_questoes)) = 10
        /\ \A n \in 1..Len(df_questoes) :
              \A r \in LinhasCasadas("2020") \cup LinhasCasadas("2021") :
                  r.CO_ITEM \notin Itens(df_questoes)
                      => AnoDificuldadeMenorIgual(df_questoes[n], r)

\* Reached: the scenario ended with a row of 2021 left out although its
\* difficulty is lower than that of a row of 2020 that was kept.
C6_Witness ==
    /\ C6_Cenario
    /\ Carregado
    /\ \E n \in 1..Len(df_questoes) :
          \E r \in LinhasCasadas("2021") :
              /\ r.CO_ITEM \notin Itens(df_questoes)
              /\ df_questoes[n].ANO_PROVA = 2020
              /\ r.NU_PARAM_B < df_questoes[n].NU_PARAM_B

-----------------------------------------------------------------------------
(* C7 *)

\* C7: a non-empty result of N rows carries the display numbers 1, 2, ..., N in
\* its final order.
C7_NumeracaoSequencial ==
    Carregado =>
        /\ df_questoes # <<>>
        /\ \A n \in 1..Len(df_questoes) : df_questoes[n].NUMERO_QUESTAO = n

\* Reached: a result of two or more rows that the cap's sort reordered, so that
\* the first row is not the first of the combined result, and whose numbers
\* differ from the rows' positions in the exam.
C7_Witness ==
    /\ Carregado
    /\ Len(df_questoes) >= 2
    /\ df_questoes[1].CO_ITEM # PreCorte[1].CO_ITEM
    /\ \E n \in 1..Len(df_questoes) : df_questoes[n].CO_POSICAO # n

-----------------------------------------------------------------------------
(* C8 *)

\* C8: the Questao objects handed to the document generator carry the display
\* numbers 1..K, K their count, also when rows were skipped for want of a
\* detail record.
C8_NumerosContiguos ==
    pc = "documento" => \A k \in 1..Len(questoes) : questoes[k].numero = k

-----------------------------------------------------------------------------
(* C9 *)

\* The index resolves no requested subject for the year.
AnoSemProva(ano) == MateriasResolvidas(ano) = {}

\* C9: a year for which no (year, subject) pair resolves contributes no row and
\* does not raise; and with no other filter in force the rows returned are
\* exactly those the resolvable pairs select, whatever unresolvable years and
\* subjects the request also names.
C9_ParNaoResolvido ==
    /\ (AnoProcessado /\ AnoSemProva(AnoAtual)) => df_ano_filtrado = <<>>
    /\ pc = "excecao" => ~AnoSemProva(pedido.anos[i])
    /\ (/\ CarregamentoEncerrado
        /\ pc # "erro_validacao"
        /\ pedido.posicoes = <<>>
        /\ ~HabilidadeAtiva
        /\ ~pedido.filtrar_quantidade
        /\ pedido.min_dif = 0 /\ pedido.max_dif = 2000) =>
           /\ pc # "excecao"
           /\ Itens(df_questoes) =
                 UNION {ItensDe(LinhasCasadas(pedido.anos[n])) : n \in 1..Len(pedido.anos)}

\* Reached: a request naming a year the index lacks, with rows of that year in
\* the table, and a subject the index lacks, that returned a row of another
\* year.
C9_Witness ==
    /\ Carregado
    /\ "2008" \in Range(pedido.anos)
    /\ "XX" \in Range(pedido.materias)
    /\ \E r \in Range(df_consolidado) : r.ANO_PROVA = 2008
    /\ \E r \in Range(df_consolidado) : r.SG_AREA = "XX" /\ r.ANO_PROVA = 2020
    /\ pedido.anos[1] = "2008"
    /\ df_questoes # <<>>

-----------------------------------------------------------------------------
(* C10 *)

\* C10: with the skill filter in force every row of the year's result has a
\* numeric skill code of the requested set; and when nothing else excludes
\* rows (no position filter, no difficulty bound) the result holds exactly the
\* subject/exam-matched rows with such a code.
C10_HabilidadeNumerica ==
    (AnoProcessado /\ HabilidadeAtiva) =>
        /\ \A n \in 1..Len(df_ano_filtrado) :
              /\ ~IsNaN(df_ano_filtrado[n].CO_HABILIDADE)
              /\ df_ano_filtrado[n].CO_HABILIDADE \in Range(pedido.habilidades)
        /\ (pedido.posicoes = <<>> /\ pedido.min_dif = 0 /\ pedido.max_dif = 2000) =>
              Itens(df_ano_filtrado) =
                  {r.CO_ITEM : r \in {s \in LinhasCasadas(AnoAtual) :
                      /\ ~IsNaN(s.CO_HABILIDADE)
                      /\ s.CO_HABILIDADE \in Range(pedido.habilidades)}}

\* Reached: the filter kept a row and excluded a matched row without a numeric
\* skill code and a matched row whose code was not requested.
C10_Witness ==
    /\ AnoProcessado
    /\ HabilidadeAtiva
    /\ pedido.min_dif = 0
    /\ df_ano_filtrado # <<>>
    /\ \E r \in LinhasCasadas(AnoAtual) : IsNaN(r.CO_HABILIDADE)
    /\ \E r \in LinhasCasadas(AnoAtual) :
          ~IsNaN(r.CO_HABILIDADE) /\ r.CO_HABILIDADE \notin Range(pedido.habilidades)

-----------------------------------------------------------------------------
(* C11 *)

-----------------------------------------------------------------------------
(* C12 *)

\* validar has returned for the object.
Validado == validacao # <<>>

\* The conditions of C12 on the object, one by one.
SemAno == form.anos = <<>>
SemMateria == form.materias = <<>>
PosicaoSemLista ==
    form.filtrar_por_numero /\ form.numeros_questoes \in {<<>>, << <<>> >>}
QuantidadeSemValor ==
    /\ form.filtrar_por_quantidade
    /\ \/ form.quantidade_questoes = <<>>
       \/ form.quantidade_questoes # <<>> /\ form.quantidade_questoes[1] < 1
HabilidadeSemLista ==
    form.filtrar_por_habilidade /\ form.habilidades \in {<<>>, << <<>> >>}
PosicaoEQuantidade == form.filtrar_por_numero /\ form.filtrar_por_quantidade

AlgumaCondicao ==
    \/ SemAno \/ SemMateria \/ PosicaoSemLista
    \/ QuantidadeSemValor \/ HabilidadeSemLista \/ PosicaoEQuantidade

\* C12: validar rejects, with a non-empty reason, every object with no year,
\* no subject, an active position filter without positions, an active
\* quantity filter without a positive quantity, an active skill filter
\* without skills, or the position and quantity filters both active; and it
\* accepts, with no reason, every object with none of these and min <= max.
C12_SuperficieDeValidacao ==
    Validado =>
        /\ AlgumaCondicao =>
              /\ ~validacao[1].valido
              /\ validacao[1].mensagem # <<>>
              /\ validacao[1].mensagem[1] # ""
        /\ (~AlgumaCondicao /\ form.dificuldade_minima <= form.dificuldade_maxima) =>
              /\ validacao[1].valido
              /\ validacao[1].mensagem = <<>>

\* Reached: an object rejected for the one reason that its position and
\* quantity filters are both active, positions and quantity being given.
C12_Witness ==
    /\ Validado
    /\ PosicaoEQuantidade
    /\ ~SemAno /\ ~SemMateria /\ ~PosicaoSemLista
    /\ ~QuantidadeSemValor /\ ~HabilidadeSemLista
    /\ ~validacao[1].valido

\* Reached: an object with every filter active and filled that is accepted.
C12_WitnessAceito ==
    /\ Validado
    /\ form.filtrar_por_dificuldade /\ form.filtrar_por_habilidade
    /\ form.filtrar_por_quantidade
    /\ validacao[1].valido

-----------------------------------------------------------------------------
(* C13 *)

\* C13 as stated: validar rejects every object whose minimum difficulty is
\* greater than its maximum, whatever its other fields and flags.
C13_MinMaiorRejeitado ==
    (Validado /\ form.dificuldade_minima > form.dificuldade_maxima) =>
        ~validacao[1].valido

\* C13 amended: validar rejects every object whose difficulty filter is
\* active and whose minimum difficulty is greater than its maximum; with the
\* difficulty filter inactive the bounds are not looked at, and an object
\* with minimum above maximum and no other fault is accepted.
C13_MinMaiorComFiltroAtivo ==
    (Validado /\ form.dificuldade_minima > form.dificuldade_maxima) =>
        /\ form.filtrar_por_dificuldade =>
              ~validacao[1].valido /\ validacao[1].mensagem # <<>>
        /\ (~form.filtrar_por_dificuldade /\ ~AlgumaCondicao) => validacao[1].valido

\* Reached: an object with minimum above maximum, the difficulty filter
\* active and no other fault, rejected with the reason of the interval.
C13_Witness ==
    /\ Validado
    /\ form.dificuldade_minima > form.dificuldade_maxima
    /\ form.filtrar_por_dificuldade
    /\ ~AlgumaCondicao
    /\ validacao[1] = Rejeita("Dificuldade mínima não pode ser maior que a máxima")

-----------------------------------------------------------------------------
(* C14 *)

\* A condition of the validation surface holds of the arguments of the request.
PedidoMalformado ==
    \/ pedido.anos = <<>>
    \/ pedido.materias = <<>>
    \/ pedido.min_dif > pedido.max_dif
    \/ pedido.filtrar_quantidade /\ pedido.quantidade <= 0
    \/ pedido.filtrar_habilidade /\ pedido.habilidades = <<>>
    \/ pedido.posicoes # <<>> /\ pedido.filtrar_quantidade

\* C14: a request whose specification is malformed or contradictory ends with
\* the validation error, and carregar_questoes is never invoked for it.
C14_ValidadoAntesDeFiltrar ==
    (PedidoMalformado /\ pc # "ocioso") => pc = "erro_validacao"

-----------------------------------------------------------------------------
(* C15 *)

\* C15: a request whose filtering yields no row ends in the outcome "vazio",
\* which is not the outcome of a validation failure, and the questions are
\* processed and a document is produced only from a non-empty result.
C15_SemResultado ==
    /\ (/\ CarregamentoEncerrado
        /\ pc \notin {"erro_validacao", "excecao"}
        /\ df_questoes = <<>>) => pc = "vazio"
    /\ pc = "vazio" =>
          /\ pedido.anos # <<>> /\ pedido.materias # <<>>
          /\ df_questoes = <<>>
          /\ questoes = <<>>
    /\ pc = "erro_validacao" => (pedido.anos = <<>> \/ pedido.materias = <<>>)
    /\ pc \in {"processando", "erro_processar", "documento"} => df_questoes # <<>>

\* Reached: a request that passed the validation, found rows of its years in
\* the table, went through every year and was left with no row.
C15_Witness ==
    /\ pc = "vazio"
    /\ DfAnos(df_consolidado, pedido.anos) # <<>>
    /\ i > Len(pedido.anos)
    /\ dataframes_anos = <<>>

-----------------------------------------------------------------------------
(* Vocabulary of the properties of the paragraph formatter. *)

Formatos == {"bold", "subscript", "italic", "superscript"}

\* The flags a run carries.
Flags(run) == {f \in Formatos : run[f]}

\* The texts of the runs, one after another.
TextoDosRuns == Concat([n \in 1..Len(runs) |-> runs[n].text])

\* The runs as text and flags.
RunsEmitidos == [n \in 1..Len(runs) |-> [text |-> runs[n].text, flags |-> Flags(runs[n])]]

\* The paragraph is complete.
Formatado == pm = "fim"

EhDelimitador(c) == c \in {"*", "_", "^"}

-----------------------------------------------------------------------------
(* C16 *)

\* C16: the text "**A** and _B_ and ^C^ and __D__" gives, in this order and
\* with nothing else, the runs "A" bold, " and " plain, "B" italic, " and "
\* plain, "C" superscript, " and " plain, "D" subscript.
C16_SeteRuns ==
    (Formatado /\ texto = TextoC16) =>
        RunsEmitidos =
            << [text |-> <<"A">>, flags |-> {"bold"}],
               [text |-> <<" ", "a", "n", "d", " ">>, flags |-> {}],
               [text |-> <<"B">>, flags |-> {"italic"}],
               [text |-> <<" ", "a", "n", "d", " ">>, flags |-> {}],
               [text |-> <<"C">>, flags |-> {"superscript"}],
               [text |-> <<" ", "a", "n", "d", " ">>, flags |-> {}],
               [text |-> <<"D">>, flags |-> {"subscript"}] >>

\* Reached: the paragraph of that text is complete, the handler having gone
\* through its table from the last entry on for the last span.
C16_Witness ==
    /\ Formatado
    /\ texto = TextoC16
    /\ Len(runs) = 7
    /\ ordem = <<4, 3, 2, 1>>

-----------------------------------------------------------------------------
(* C17 *)

\* The case of C17: a non-empty text with no delimiter character, formatted.
C17_Caso ==
    /\ Formatado
    /\ texto # <<>>
    /\ \A k \in 1..Len(texto) : ~EhDelimitador(texto[k])

\* C17 as stated: one unflagged run whose text is the input exactly,
\* whitespace at its ends included.
C17_RunIgualAoTexto ==
    C17_Caso =>
        /\ Len(runs) = 1
        /\ Flags(runs[1]) = {}
        /\ runs[1].text = texto

\* C17 amended: one unflagged run whose text is the input without the
\* whitespace at its start and at its end; no run when the input is
\* whitespace only.
C17_RunSemMargens ==
    C17_Caso =>
        IF \A k \in 1..Len(texto) : EhEspaco(texto[k])
        THEN runs = <<>>
        ELSE /\ Len(runs) = 1
             /\ Flags(runs[1]) = {}
             /\ \E a, b \in 0..Len(texto) :
                   /\ a + b < Len(texto)
                   /\ runs[1].text = SubSeq(texto, a + 1, Len(texto) - b)
                   /\ \A k \in 1..a : EhEspaco(texto[k])
                   /\ \A k \in (Len(texto) - b + 1)..Len(texto) : EhEspaco(texto[k])
                   /\ ~EhEspaco(texto[a + 1])
                   /\ ~EhEspaco(texto[Len(texto) - b])

\* Reached: a text with whitespace at both ends and inside, whose run keeps
\* the whitespace inside and loses that of the ends.
C17_Witness ==
    /\ C17_Caso
    /\ EhEspaco(texto[1]) /\ EhEspaco(texto[Len(texto)])
    /\ Len(runs) = 1
    /\ runs[1].text = <<"a", " ", "a">>

-----------------------------------------------------------------------------
(* C18 *)

\* The text t holds one occurrence of the delimiter of a group and no other
\* delimiter character.
UmaOcorrencia(t, grupo) ==
    LET d == Delimitador(grupo)
        lugares == {k \in 1..Len(t) : EhDelimitador(t[k])}
    IN  /\ Cardinality(lugares) = Len(d)
        /\ \E p \in 0..Len(t) : ComecaCom(t, p, d) /\ lugares = (p + 1)..(p + Len(d))

\* C18: a text with one occurrence of one of the delimiters **, __, _ and ^
\* and no closing occurrence gives unflagged runs only, whose texts put
\* together are the text exactly.
C18_SemFechoNaoCasa ==
    (Formatado /\ \E g \in 1..4 : UmaOcorrencia(conteudo, g)) =>
        /\ \A n \in 1..Len(runs) : Flags(runs[n]) = {}
        /\ TextoDosRuns = conteudo

-----------------------------------------------------------------------------
(* C19 *)

\* C19: the runs come from consecutive slices that cover the text, an
\* unflagged run having its slice for text and a flagged run having its slice
\* less the opening and the closing delimiter of its pattern: the texts of
\* the runs put together are the text with only the delimiters of the
\* matched spans left out.
C19_SoDelimitadoresRemovidos ==
    Formatado =>
        /\ runs = <<>> => conteudo = <<>>
        /\ runs # <<>> => runs[1].inicio = 0 /\ runs[Len(runs)].fim = Len(conteudo)
        /\ \A n \in 1..(Len(runs) - 1) : runs[n].fim = runs[n + 1].inicio
        /\ \A n \in 1..Len(runs) :
              LET fatia == Fatia(conteudo, runs[n].inicio, runs[n].fim)
              IN  IF Flags(runs[n]) = {} THEN runs[n].text = fatia
                  ELSE \E g \in 1..4 :
                          /\ Formato(g) \in Flags(runs[n])
                          /\ fatia = Delimitador(g) \o runs[n].text \o Delimitador(g)

\* Reached: a flagged run whose text holds a delimiter character of another
\* pattern, next to an unflagged run.
C19_Witness ==
    /\ Formatado
    /\ Len(runs) >= 2
    /\ \E n \in 1..Len(runs) :
          /\ Flags(runs[n]) # {}
          /\ \E k \in 1..Len(runs[n].text) : EhDelimitador(runs[n].text[k])
    /\ \E n \in 1..Len(runs) : Flags(runs[n]) = {} /\ runs[n].text # <<>>

-----------------------------------------------------------------------------
(* C20 *)

\* C20: the slices of the runs never overlap, a run carries at most one flag,
\* and a flagged run carries the flag of the first pattern, in the order
\* bold, subscript, italic, superscript, that matches where its slice starts,
\* whatever the order in which the handler went through its table.
C20_UmaFlagPorRun ==
    pm \in {"laco", "fim"} =>
        /\ \A m, n \in 1..Len(runs) : m < n => runs[m].fim <= runs[n].inicio
        /\ \A n \in 1..Len(runs) :
              /\ Cardinality(Flags(runs[n])) <= 1
              /\ Flags(runs[n]) # {} =>
                    \E g \in 1..4 :
                        /\ FimDoPadrao(conteudo, g, runs[n].inicio) = runs[n].fim
                        /\ \A h \in 1..(g - 1) :
                               FimDoPadrao(conteudo, h, runs[n].inicio) = -1
                        /\ Flags(runs[n]) = {Formato(g)}

\* Reached: "__a__" formatted as one subscript run, the handler having tried
\* the italic entry of its table first.
C20_Witness ==
    /\ Formatado
    /\ conteudo = <<"_", "_", "a", "_", "_">>
    /\ ordem[1] = 3
    /\ RunsEmitidos = <<[text |-> <<"a">>, flags |-> {"subscript"}]>>

-----------------------------------------------------------------------------
(* C21 *)

\* The two spellings of the list marker.
Marcadores == {<<"*", " ", "-">>, <<"*", " ", "\\", "-">>}

\* The text the two methods receive (line 125) is the argument without the
\* whitespace at its ends: a slice of the argument between two whitespace
\* margins, starting and ending with a character that is no whitespace.
RecebidoDe(t) ==
    {Fatia(t, a, b) : a \in {x \in 0..Len(t) : \A k \in 1..x : EhEspaco(t[k])},
                      b \in {y \in 0..Len(t) : \A k \in (y + 1)..Len(t) : EhEspaco(t[k])}}

\* C21: when the text the formatter works on starts with "* -" or "* \-" the
\* paragraph is a list item and its content is the text after that one
\* marker and the whitespace following it, nothing else changed; for every
\* other text the paragraph is no list item and the content is the text.
C21_MarcadorDeLista ==
    pm # "parado" =>
        \E ts \in RecebidoDe(texto) :
            /\ ts # <<>> => ~EhEspaco(ts[1]) /\ ~EhEspaco(ts[Len(ts)])
            /\ ts = <<>> => \A k \in 1..Len(texto) : EhEspaco(texto[k])
            /\ IF \E mk \in Marcadores : ComecaCom(ts, 0, mk)
               THEN /\ estilo = "List Bullet"
                    /\ \E mk \in Marcadores, w \in 0..Len(ts) :
                          /\ ComecaCom(ts, 0, mk)
                          /\ Len(mk) + w <= Len(ts)
                          /\ \A k \in (Len(mk) + 1)..(Len(mk) + w) : EhEspaco(ts[k])
                          /\ conteudo = Fatia(ts, Len(mk) + w, Len(ts))
                          /\ conteudo # <<>> => ~EhEspaco(conteudo[1])
               ELSE /\ estilo = "Normal"
                    /\ conteudo = ts

\* Reached: "* - * - a" formatted as a list item whose content keeps the
\* second marker.
C21_Witness ==
    /\ Formatado
    /\ estilo = "List Bullet"
    /\ conteudo = <<"*", " ", "-", " ", "a">>

\* Reached: a text with a marker that is not at its start is no list item.
C21_WitnessSemMarcador ==
    /\ Formatado
    /\ estilo = "Normal"
    /\ texto = <<"a", " ", "*", " ", "-", " ", "a">>
    /\ conteudo = texto

-----------------------------------------------------------------------------
(* C25 *)

\* The rows of df that have a details.json, in the order of df.
ComDetalhes(df) ==
    SelectSeq(df, LAMBDA r : <<IntDeAno(r.ANO), r.CO_POSICAO>> \in detalhes)

\* The Questao objects are those of the rows of df, one for one and in order.
QuestoesDe(df) ==
    /\ Len(questoes) = Len(df)
    /\ \A n \in 1..Len(df) :
          /\ questoes[n].ano = IntDeAno(df[n].ANO)
          /\ questoes[n].posicao = df[n].CO_POSICAO
          /\ questoes[n].gabarito = df[n].TX_GABARITO

\* C25: a row whose detail lookup gives nothing is the only row left out: at
\* every turn of the loop the Questao objects are those of the rows handled so
\* far that have a detail record, in the order of the filtered result, the
\* loop goes through every row, and the request ends in a document as soon as
\* one row has a detail record.
C25_SoFaltantesOmitidos ==
    /\ pc = "processando" => QuestoesDe(ComDetalhes(SubSeq(df_questoes, 1, j - 1)))
    /\ pc \in {"documento", "erro_processar"} =>
          /\ j = Len(df_questoes) + 1
          /\ QuestoesDe(ComDetalhes(df_questoes))
          /\ pc = "documento" <=> ComDetalhes(df_questoes) # <<>>

\* Reached: a document of two questions from three selected rows, the second
\* of which has no detail record.
C25_Witness ==
    /\ pc = "documento"
    /\ Len(df_questoes) = 3
    /\ <<IntDeAno(df_questoes[2].ANO), df_questoes[2].CO_POSICAO>> \notin detalhes
    /\ Len(questoes) = 2
    /\ questoes[1].posicao = df_questoes[1].CO_POSICAO
    /\ questoes[2].posicao = df_questoes[3].CO_POSICAO

-----------------------------------------------------------------------------
(* C26 *)

\* The exam codes the index gives for the requested subjects of a year; none
\* for a year or a subject the index lacks.
CodigosResolvidos(ano) ==
    {provas_regulares[ano][m] : m \in MateriasResolvidas(ano)}

\* C26: every year of the index has exactly the subjects CH, CN, MT and LC,
\* each with an integer exam code; a (year, subject) pair the index lacks
\* gives no exam code, so that the rows kept for a year carry only the codes
\* of the pairs it has, and the lookup never raises.
C26_IndiceDeProvas ==
    /\ \A ano \in DOMAIN provas_regulares :
          /\ DOMAIN provas_regulares[ano] = {"CH", "CN", "MT", "LC"}
          /\ \A m \in DOMAIN provas_regulares[ano] : provas_regulares[ano][m] \in Int
    /\ AnoProcessado =>
          /\ \A n \in 1..Len(df_ano_filtrado) :
                df_ano_filtrado[n].CO_PROVA \in CodigosResolvidos(AnoAtual)
          /\ AnoAtual \notin DOMAIN provas_regulares => df_ano_filtrado = <<>>
          /\ Range(pedido.materias) \cap {"CH", "CN", "MT", "LC"} = {}
                => df_ano_filtrado = <<>>
    /\ pc = "excecao" => pedido.posicoes # <<>> /\ CodigosResolvidos(pedido.anos[i]) # {}

\* Reached: the request for 2020 and 2008, MT and XX, went through both years:
\* 2020 gave rows, 2008, which has rows in the table and no entry in the
\* index, gave none.
C26_Witness ==
    /\ pc = "anos"
    /\ pedido.anos = <<"2020", "2008">>
    /\ pedido.materias = <<"MT", "XX">>
    /\ i = 3
    /\ dataframes_anos # <<>>
    /\ df_ano_filtrado = <<>>
    /\ \E r \in Range(df_consolidado) : r.ANO_PROVA = 2008 /\ r.SG_AREA = "MT"

-----------------------------------------------------------------------------
(* C27 *)

\* C27: no step of a request, and no step from one request to the next,
\* changes the consolidated table: its rows, their values and their order
\* stay what they were.
C27_TabelaIntacta == [][df_consolidado' = df_consolidado]_vars

\* Reached: a request with a position list returned rows in an order that is
\* not the order of the table, with the columns ANO and NUMERO_QUESTAO written
\* to them and to no row of the table.
C27_Witness ==
    /\ Carregado
    /\ pedido.posicoes # <<>>
    /\ \A n \in 1..Len(df_questoes) :
          {"ANO", "NUMERO_QUESTAO"} \subseteq DOMAIN df_questoes[n]
    /\ \A n \in 1..Len(df_consolidado) :
          {"ANO", "NUMERO_QUESTAO"} \cap DOMAIN df_consolidado[n] = {}
    /\ \E a, b \in 1..Len(df_consolidado) : \E m, n \in 1..Len(df_questoes) :
          /\ a < b /\ m < n
          /\ df_questoes[m].CO_ITEM = df_consolidado[b].CO_ITEM
          /\ df_questoes[n].CO_ITEM = df_consolidado[a].CO_ITEM

-----------------------------------------------------------------------------
(* C28 *)

\* The place of a year in the request and of a position in the position list.
LugarDoAno(ano) == CHOOSE k \in 1..Len(pedido.anos) : pedido.anos[k] = ano

LugarDaPosicao(p) == CHOOSE k \in 1..Len(Pedidas) : Pedidas[k] = p

\* The case of C28: a position list and a cap Q in force, and more than Q rows
\* combined.
C28_Caso ==
    /\ Carregado
    /\ Pedidas # <<>>
    /\ pedido.filtrar_quantidade
    /\ pedido.quantidade > 0
    /\ Len(PreCorte) > pedido.quantidade

\* C28: with a position list and a cap Q in force and more than Q rows
\* combined, the combined rows stand by year in the order of the request and,
\* within a year, by position in the order of the list, and the result is
\* their first Q rows in that order.
C28_PrimeirasSemReordenar ==
    C28_Caso =>
        /\ \A m, n \in 1..Len(PreCorte) : m < n =>
              \/ LugarDoAno(PreCorte[m].ANO) < LugarDoAno(PreCorte[n].ANO)
              \/ /\ PreCorte[m].ANO = PreCorte[n].ANO
                 /\ LugarDaPosicao(PreCorte[m].CO_POSICAO)
                        < LugarDaPosicao(PreCorte[n].CO_POSICAO)
        /\ Len(df_questoes) = pedido.quantidade
        /\ \A n \in 1..Len(df_questoes) :
              /\ df_questoes[n].CO_ITEM = PreCorte[n].CO_ITEM
              /\ df_questoes[n].ANO = PreCorte[n].ANO
              /\ df_questoes[n].CO_POSICAO = PreCorte[n].CO_POSICAO
              /\ df_questoes[n].NU_PARAM_B = PreCorte[n].NU_PARAM_B

\* Reached: the rows kept are neither in ascending (year, difficulty) order
\* nor the rows a sort by (year, difficulty) would have kept.
C28_Witness ==
    /\ C28_Caso
    /\ \E m, n \in 1..Len(df_questoes) :
          m < n /\ ~AnoDificuldadeMenorIgual(df_questoes[m], df_questoes[n])
    /\ \E n \in 1..Len(df_questoes) : \E k \in 1..Len(PreCorte) :
          /\ PreCorte[k].CO_ITEM \notin Itens(df_questoes)
          /\ ~AnoDificuldadeMenorIgual(df_questoes[n], PreCorte[k])

-----------------------------------------------------------------------------
(* C30 *)

\* The difficulty of r comes no later than that of s, a missing one last.
DificuldadeMenorIgual(r, s) ==
    \/ IsNaN(s.NU_PARAM_B)
    \/ ~IsNaN(r.NU_PARAM_B) /\ r.NU_PARAM_B <= s.NU_PARAM_B

\* The cap is in force and the combined rows exceed it.
CorteAtivo ==
    /\ pedido.filtrar_quantidade
    /\ pedido.quantidade # 0
    /\ Len(PreCorte) > pedido.quantidade

\* C30: without a position list, when nothing is cut the result is the
\* combined rows, the years in the order of the request and the rows of a
\* year ascending by difficulty; when the cap is exceeded the result is
\* ascending by (year, difficulty).
C30_OrdemDoPedidoSemCorte ==
    (Carregado /\ pedido.posicoes = <<>>) =>
        IF ~CorteAtivo
        THEN /\ Len(df_questoes) = Len(PreCorte)
             /\ \A n \in 1..Len(df_questoes) :
                   df_questoes[n].CO_ITEM = PreCorte[n].CO_ITEM
             /\ \A m, n \in 1..Len(df_questoes) : m < n =>
                   \/ LugarDoAno(df_questoes[m].ANO) < LugarDoAno(df_questoes[n].ANO)
                   \/ /\ df_questoes[m].ANO = df_questoes[n].ANO
                      /\ DificuldadeMenorIgual(df_questoes[m], df_questoes[n])
        ELSE \A m, n \in 1..Len(df_questoes) : m < n =>
                 AnoDificuldadeMenorIgual(df_questoes[m], df_questoes[n])

\* Reached: a request for 2021 and then 2020 under a cap that is not
\* exceeded, whose result starts with 2021 and ends with 2020.
C30_Witness ==
    /\ Carregado
    /\ pedido.posicoes = <<>>
    /\ pedido.filtrar_quantidade /\ pedido.quantidade > 0
    /\ ~CorteAtivo
    /\ pedido.anos = <<"2021", "2020">>
    /\ Len(df_questoes) >= 2
    /\ df_questoes[1].ANO_PROVA = 2021
    /\ df_questoes[Len(df_questoes)].ANO_PROVA = 2020

\* Reached: no cap, and a year whose rows are stored in another order than
\* that of their difficulties.
C30_WitnessSemLimite ==
    /\ Carregado
    /\ pedido.posicoes = <<>>
    /\ ~pedido.filtrar_quantidade
    /\ pedido.anos = <<"2021", "2020">>
    /\ df_questoes[1].ANO_PROVA = 2021
    /\ \E m, n \in 1..Len(df_questoes) :
          /\ m < n
          /\ df_questoes[m].ANO = df_questoes[n].ANO
          /\ df_questoes[m].CO_ITEM > df_questoes[n].CO_ITEM
          /\ df_questoes[m].NU_PARAM_B < df_questoes[n].NU_PARAM_B

-----------------------------------------------------------------------------
(* Vocabulary of the properties of the document generator. *)

\* The number of questions added to the document so far.
Adicionadas == IF pg = "questoes" THEN questao_idx - 1 ELSE Len(lista_questoes)

\* The instructions of question n, in the order of the document.
DaQuestao(n) == SelectSeq(doc, LAMBDA x : x.questao = n)

\* The instructions of question n made by one part of _adicionar_questao.
DaOrigem(n, origem) == SelectSeq(doc, LAMBDA x : x.questao = n /\ x.origem = origem)

\* The place of an instruction in the order of _adicionar_questao: title,
\* context, files, references, introduction, alternatives.
Fase(x) ==
    CASE x.origem = "titulo" -> 1
      [] x.origem = "contexto" -> 2
      [] x.origem = "questao" -> 3
      [] x.origem = "referencias" -> 4
      [] x.origem = "introducao" -> 5
      [] x.origem = "alternativa" -> 6
      [] OTHER -> 7

\* The document is complete.
DocumentoPronto == pg = "fim"

-----------------------------------------------------------------------------
(* C22 *)

\* C22: the questions are handled in the order of the list, and the
\* instructions of a question stand in the order title, context, files not
\* yet added, references, introduction of the alternatives, alternatives in
\* the order of their list: every question added has one title, which carries
\* its number and is its first instruction, and no instruction of a question
\* stands after an instruction of a later question.
C22_OrdemDasInstrucoes ==
    pg # "parado" =>
        /\ \A m, n \in 1..Len(doc) :
              (m < n /\ doc[m].questao >= 1 /\ doc[n].questao >= 1) =>
                  \/ doc[m].questao < doc[n].questao
                  \/ /\ doc[m].questao = doc[n].questao
                     /\ \/ Fase(doc[m]) < Fase(doc[n])
                        \/ /\ Fase(doc[m]) = Fase(doc[n])
                           /\ Fase(doc[m]) \in {2, 3, 6}
                           /\ doc[m].indice <= doc[n].indice
        /\ \A k \in 1..Adicionadas :
              /\ DaQuestao(k) # <<>>
              /\ DaQuestao(k)[1].tipo = "titulo"
              /\ DaQuestao(k)[1].numero = lista_questoes[k].numero
              /\ Len(DaOrigem(k, "titulo")) = 1
        /\ \A n \in 1..Len(doc) :
              LET x == doc[n]
                  questao == lista_questoes[x.questao]
              IN  x.questao >= 1 =>
                    /\ x.questao <= Adicionadas
                    /\ Fase(x) <= 6
                    /\ x.origem = "questao" => x.url = questao.arquivos[x.indice]
                    /\ x.origem = "referencias" => x.texto = <<questao.referencias>>
                    /\ x.origem = "introducao" =>
                          x.texto = <<questao.introducao_alternativas>>
                    /\ x.origem = "alternativa" =>
                          x.letra = questao.alternativas[x.indice].letter

\* Reached: a document of two questions, the first of which has instructions
\* of each of the six kinds.
C22_Witness ==
    /\ DocumentoPronto
    /\ Len(lista_questoes) >= 2
    /\ {Fase(DaQuestao(1)[n]) : n \in 1..Len(DaQuestao(1))} = 1..6
    /\ Len(DaOrigem(1, "alternativa")) >= 2
    /\ DaQuestao(2) # <<>>

-----------------------------------------------------------------------------
(* C23 *)

\* C23: the complete document has one page break, which stands after the
\* last instruction of the last question; after it come the heading of the
\* answer key and one line per question of the list, in the order of the
\* list, each with the number the title of its question shows and with the
\* answer letter of its question.
C23_GabaritoDepoisDasQuestoes ==
    DocumentoPronto =>
        \E k \in 1..Len(doc) :
            /\ \A m \in 1..Len(doc) : doc[m].tipo = "quebra" <=> m = k
            /\ \A m \in 1..Len(doc) : doc[m].questao >= 1 <=> m < k
            /\ k > 1 /\ doc[k - 1].questao = Len(lista_questoes)
            /\ Len(doc) = k + 1 + Len(lista_questoes)
            /\ doc[k + 1].tipo = "paragrafo" /\ doc[k + 1].texto = <<"Gabarito">>
            /\ \A n \in 1..Len(lista_questoes) :
                  /\ doc[k + 1 + n].tipo = "gabarito"
                  /\ doc[k + 1 + n].numero = lista_questoes[n].numero
                  /\ doc[k + 1 + n].numero = DaOrigem(n, "titulo")[1].numero
                  /\ doc[k + 1 + n].letra = lista_questoes[n].gabarito

\* Reached: a complete document of two questions whose numbers are not their
\* places in the list and whose answers differ.
C23_Witness ==
    /\ DocumentoPronto
    /\ Len(lista_questoes) = 2
    /\ lista_questoes[2].numero = 3
    /\ lista_questoes[1].gabarito # lista_questoes[2].gabarito
    /\ doc[Len(doc)].tipo = "gabarito" /\ doc[Len(doc)].numero = 3

-----------------------------------------------------------------------------
(* C24 *)

\* The url an image reference of a context refers to.
UrlReferida(atomo) ==
    CASE atomo = "![](u1)" -> "u1"
      [] atomo = "![]( u2 )" -> "u2"

\* A context without its blanks, each image reference replaced by its url.
SemBrancos(c) ==
    LET visiveis == SelectSeq(c, LAMBDA a : a # " ")
    IN  [n \in 1..Len(visiveis) |->
            IF EhImagem(visiveis[n]) THEN UrlReferida(visiveis[n]) ELSE visiveis[n]]

\* Instructions read back as a context without blanks: the text of a
\* paragraph, the url of an image.
Aplanar(instrucoes) ==
    Concat([n \in 1..Len(instrucoes) |->
               IF instrucoes[n].tipo = "imagem" THEN <<instrucoes[n].url>>
               ELSE SelectSeq(instrucoes[n].texto, LAMBDA a : a # " ")])

\* The urls the image references of a context refer to.
UrlsDoContexto(c) == {UrlReferida(c[n]) : n \in {x \in 1..Len(c) : EhImagem(c[x])}}

\* C24: for every question added, the paragraphs and images made from its
\* context read back as the context, in its order, a text between two image
\* references being one paragraph without blanks at its ends; and the images
\* made from the files of the question are, in the order of the files, those
\* whose url no image reference of the context refers to.
C24_ImagensSemRepetir ==
    pg # "parado" =>
        \A k \in 1..Adicionadas :
            LET questao == lista_questoes[k]
                ctx == DaOrigem(k, "contexto")
                arq == DaOrigem(k, "questao")
                restantes == SelectSeq(questao.arquivos,
                                       LAMBDA u : u \notin UrlsDoContexto(questao.contexto))
            IN  /\ Aplanar(ctx) = SemBrancos(questao.contexto)
                /\ \A n \in 1..Len(ctx) :
                      /\ ctx[n].tipo \in {"paragrafo_formatado", "imagem"}
                      /\ ctx[n].tipo = "paragrafo_formatado" =>
                            /\ ctx[n].texto # <<>>
                            /\ ctx[n].texto[1] # " "
                            /\ ctx[n].texto[Len(ctx[n].texto)] # " "
                            /\ n < Len(ctx) => ctx[n + 1].tipo = "imagem"
                /\ Len(arq) = Len(restantes)
                /\ \A n \in 1..Len(arq) :
                      arq[n].tipo = "imagem" /\ arq[n].url = restantes[n]
                /\ \A n \in 1..Len(arq) : \A m \in 1..Len(ctx) :
                      ctx[m].tipo = "imagem" => arq[n].url # ctx[m].url

\* Reached: the context "a ![](u1) a" with the files u2 and u1 gave a
\* paragraph, the image u1 and a paragraph, and then the image u2 alone.
C24_Witness ==
    /\ Adicionadas >= 1
    /\ lista_questoes[1].contexto = <<"a", "![](u1)", "a">>
    /\ lista_questoes[1].arquivos = <<"u2", "u1">>
    /\ Len(DaOrigem(1, "contexto")) = 3
    /\ DaOrigem(1, "contexto")[2].url = "u1"
    /\ Len(DaOrigem(1, "questao")) = 1
    /\ DaOrigem(1, "questao")[1].url = "u2"

-----------------------------------------------------------------------------
(* C29 *)

\* C29: for every question added, each alternative of its list has exactly
\* one instruction, which carries its letter, whether it has a text, a file,
\* both or neither, so that the alternatives' instructions are as many as the
\* alternatives.
C29_UmaInstrucaoPorAlternativa ==
    pg # "parado" =>
        \A k \in 1..Adicionadas :
            LET alternativas == lista_questoes[k].alternativas
                instrucoes == DaOrigem(k, "alternativa")
            IN  /\ Len(instrucoes) = Len(alternativas)
                /\ \A a \in 1..Len(alternativas) :
                      /\ instrucoes[a].indice = a
                      /\ instrucoes[a].letra = alternativas[a].letter

====
